---- MODULE Spec2Model ----
(***************************************************************************)
(* A model of spark-optimus: the configuration parser                      *)
(* (spark_config_mcp/spark_config_parser.py) and the rule battery of the   *)
(* analyzer (spark_config_mcp/config_analyzer.py).                         *)
(*                                                                         *)
(* Text.  A Python str is modelled as a sequence of lexemes.  A lexeme is  *)
(* a TLA+ string standing for the characters it spells; the str modelled   *)
(* is the concatenation of the lexemes.  In every text the program scans,  *)
(* whitespace, "=", "#", quotes, the backslash, signs, digits and memory   *)
(* units are one-character lexemes, and a word such as                     *)
(* "spark.executor.cores" or "--master" is one lexeme; no literal that a   *)
(* regular expression of the source looks for straddles two lexemes, so    *)
(* matching lexeme by lexeme is matching character by character.  A fixed  *)
(* text the program only stores (a title, a description) is one lexeme.    *)
(*                                                                         *)
(* Optional values.  None is <<>>, a present value v is <<v>>; the empty   *)
(* str is <<>> as a text, hence << <<>> >> as a present value.             *)
(***************************************************************************)
EXTENDS Integers, Sequences, FiniteSets, TLC

VARIABLES
    file_path,  \* the path argument of the parser call
    fs,         \* the file at that path: [exists, content]
    call,       \* which parser entry point has been called ("none" before)
    dialect,    \* the sub-parser parse_file handed the path to
    ret,        \* the outcome of the call: [raised, value]
    a_config,   \* the SparkConfig handed to the analyzer
    a_metrics,  \* the Optional[ExecutionMetrics] handed to the analyzer
    a_called,   \* whether the rule battery has run
    a_recs,     \* the recommendations it returned
    a_raised,   \* whether it raised instead of returning
    r_text,     \* the response text handed to the Stage B parser
    r_called,   \* whether the Stage B parser has run
    r_ret,      \* its outcome: [raised, summary, recs]
    z_client,   \* whether self.client is set (the generative capability is configured)
    z_reply,    \* what the completion call will do: [kind, content]
    z_pc,       \* the position of analyze: "start", "client", "parse", "done" ("idle": not run)
    z_recs,     \* result.recommendations
    z_summary,  \* result.summary
    z_raised,   \* whether analyze raised
    h_use_mock, \* the use_mock argument of HistoryServerClient
    h_env,      \* the environment variable USE_MOCK_DATA, None when unset
    h_http,     \* what requests.get will do: [kind, code, body]
    h_mock_file, \* the mock data file: Missing, or [exists, content]
    h_app_id,   \* the app_id argument of get_application_metrics
    h_pc,       \* the position of get_application_metrics: "start", "done" ("idle": not run)
    h_ret,      \* the outcome of get_application_metrics: [raised, value]
    m_str,      \* the memory string given to the two memory parsers
    m_called,   \* whether SparkConfigParser.parse_memory_to_mb has run
    m_ret,      \* its outcome: [raised, value], value None or Some(megabytes as limbs)
    m_eng_called, \* whether ConfigAnalyzer._parse_memory_mb has run
    m_eng_ret,  \* its outcome: [raised, value], value None or Some(megabytes as limbs)
    t_path,     \* the path parsed twice
    t_fs,       \* the file at that path, unchanged between the calls
    t_fn,       \* the entry point called twice: "parse_file", "parse_spark_defaults" or "parse_spark_submit_script"
    t_heap,     \* the dict objects allocated so far: t_heap[id] is the content of dict id
    t_first,    \* the outcome of the first call: [raised, value], raw_configs a [ref, seen]
    t_second,   \* the outcome of the second call
    t_pc,       \* "start", "first", "between", "done" ("idle": not run)
    d_dir,      \* the directory handed to parse_directory
    d_root,     \* what is at that path: [kind, entries], the entries in traversal order
    d_called,   \* whether parse_directory has been called
    d_ret,      \* its outcome: [raised, value], value the list of records
    s_env,      \* the value of USE_MOCK_DATA when the server module was loaded
    s_use_mock, \* history_client.use_mock, the flag of the one shared client
    s_mock_file, \* the mock data file beside the package
    s_calls,    \* the number of tool calls handled so far
    s_last,     \* the last tool call: [tool, arg, before, used, failed]
    j_lines,    \* the physical lines the line-joining loop reads
    j_i,        \* its index i (0-based, as in the source)
    j_line,     \* the logical line being built
    j_out,      \* command_lines
    j_pc        \* its position: "outer", "inner", "done" ("idle": not run)

parser_vars == <<file_path, fs, call, dialect, ret>>
analyzer_vars == <<a_config, a_metrics, a_called, a_recs, a_raised>>
join_vars == <<j_lines, j_i, j_line, j_out, j_pc>>
server_vars == <<s_env, s_use_mock, s_mock_file, s_calls, s_last>>
dir_vars == <<d_dir, d_root, d_called, d_ret>>
twice_vars == <<t_path, t_fs, t_fn, t_heap, t_first, t_second, t_pc>>
memory_vars == <<m_str, m_called, m_ret, m_eng_called, m_eng_ret>>
history_vars == <<h_use_mock, h_env, h_http, h_mock_file, h_app_id, h_pc, h_ret>>
analyze_vars == <<z_client, z_reply, z_pc, z_recs, z_summary, z_raised>>
response_vars == <<r_text, r_called, r_ret>>
vars == <<file_path, fs, call, dialect, ret, a_config, a_metrics, a_called, a_recs,
          a_raised, j_lines, j_i, j_line, j_out, j_pc,
          r_text, r_called, r_ret,
          z_client, z_reply, z_pc, z_recs, z_summary, z_raised,
          h_use_mock, h_env, h_http, h_mock_file, h_app_id, h_pc, h_ret,
          m_str, m_called, m_ret, m_eng_called, m_eng_ret,
          t_path, t_fs, t_fn, t_heap, t_first, t_second, t_pc,
          d_dir, d_root, d_called, d_ret,
          s_env, s_use_mock, s_mock_file, s_calls, s_last>>

---------------------------------------------------------------------------
(* Python values *)

None == <<>>
Some(v) == <<v>>

\* Python truthiness of an Optional[str]: None and '' are falsy.
TruthyStr(o) == o # None /\ o[1] # <<>>

\* Python truthiness of an Optional[int]: None and 0 are falsy.
TruthyInt(o) == o # None /\ o[1] # 0

Whitespace == {" ", "\t", "\n"}

Digits == {"0", "1", "2", "3", "4", "5", "6", "7", "8", "9"}

DigitVal(c) ==
    CASE c = "0" -> 0 [] c = "1" -> 1 [] c = "2" -> 2 [] c = "3" -> 3
      [] c = "4" -> 4 [] c = "5" -> 5 [] c = "6" -> 6 [] c = "7" -> 7
      [] c = "8" -> 8 [] c = "9" -> 9

\* str.lstrip(), str.rstrip(), str.strip()
RECURSIVE lstrip(_)
lstrip(s) == IF s # <<>> /\ Head(s) \in Whitespace THEN lstrip(Tail(s)) ELSE s

RECURSIVE rstrip(_)
rstrip(s) ==
    IF s # <<>> /\ s[Len(s)] \in Whitespace
    THEN rstrip(SubSeq(s, 1, Len(s) - 1)) ELSE s

strip(s) == lstrip(rstrip(s))

\* str.rstrip('\n')
RECURSIVE rstrip_nl(_)
rstrip_nl(s) ==
    IF s # <<>> /\ s[Len(s)] = "\n"
    THEN rstrip_nl(SubSeq(s, 1, Len(s) - 1)) ELSE s

\* The length of the longest prefix of s[from..] whose lexemes are all in S.
RECURSIVE Span(_, _, _)
Span(s, from, S) ==
    IF from <= Len(s) /\ s[from] \in S THEN 1 + Span(s, from + 1, S) ELSE 0

\* The length of the longest prefix of s[from..] with no lexeme in S.
RECURSIVE SpanNot(_, _, _)
SpanNot(s, from, S) ==
    IF from <= Len(s) /\ s[from] \notin S THEN 1 + SpanNot(s, from + 1, S) ELSE 0

\* int(s) for a str: surrounding whitespace is stripped, one sign is allowed,
\* digits may be grouped by single underscores.  <<>> stands for ValueError.
IsIntLiteral(s) ==
    LET t == strip(s)
        body == IF t # <<>> /\ Head(t) \in {"+", "-"} THEN Tail(t) ELSE t
    IN  /\ body # <<>>
        /\ \A i \in 1..Len(body) : body[i] \in Digits \cup {"_"}
        /\ body[1] # "_" /\ body[Len(body)] # "_"
        /\ \A i \in 1..(Len(body) - 1) : ~(body[i] = "_" /\ body[i + 1] = "_")

RECURSIVE DigitsValue(_, _)
DigitsValue(body, acc) ==
    IF body = <<>> THEN acc
    ELSE IF Head(body) = "_" THEN DigitsValue(Tail(body), acc)
    ELSE DigitsValue(Tail(body), 10 * acc + DigitVal(Head(body)))

PyInt(s) ==
    IF ~IsIntLiteral(s) THEN None
    ELSE LET t == strip(s)
         IN  IF Head(t) = "-" THEN Some(0 - DigitsValue(Tail(t), 0))
             ELSE IF Head(t) = "+" THEN Some(DigitsValue(Tail(t), 0))
             ELSE Some(DigitsValue(t, 0))

\* str.lower() on the lexemes the model uses.
LowerLexeme(c) ==
    CASE c = "True" -> "true" [] c = "TRUE" -> "true"
      [] c = "False" -> "false"
      [] c = "G" -> "g" [] c = "M" -> "m" [] c = "K" -> "k" [] c = "T" -> "t"
      [] c = "B" -> "b"
      [] c = "Nightly" -> "nightly" [] c = "Pipeline" -> "pipeline"
      [] c = "Production_Data_" -> "production_data_"
      [] c = "Current" -> "current" [] c = "Recommended" -> "recommended"
      [] c = "Impact" -> "impact" [] c = "IMPACT" -> "impact"
      [] c = "Memory" -> "memory" [] c = "Use" -> "use"
      [] c = "Looks" -> "looks" [] c = "Fix" -> "fix" [] c = "GC" -> "gc"
      [] c = "INFO" -> "info" [] c = "WARNING" -> "warning"
      [] c = "CRITICAL" -> "critical" [] c = "NOTE" -> "note"
      [] c = "SUMMARY" -> "summary" [] c = "Summary" -> "summary"
      [] c = "Suggestion" -> "suggestion" [] c = "More" -> "more"
      [] OTHER -> c

lower(s) == [i \in 1..Len(s) |-> LowerLexeme(s[i])]

\* A dict in insertion order: a sequence of <<key, value>> with distinct keys.
DictHas(d, k) == \E i \in 1..Len(d) : d[i][1] = k

DictGet(d, k) == d[CHOOSE i \in 1..Len(d) : d[i][1] = k][2]

DictSet(d, k, v) ==
    IF DictHas(d, k)
    THEN [i \in 1..Len(d) |-> IF d[i][1] = k THEN <<k, v>> ELSE d[i]]
    ELSE Append(d, <<k, v>>)

\* The lines a text file iterates over: split after each newline, kept.
RECURSIVE readlines(_)
readlines(content) ==
    IF content = <<>> THEN <<>>
    ELSE LET n == SpanNot(content, 1, {"\n"})
         IN  IF n = Len(content) THEN <<content>>
             ELSE <<SubSeq(content, 1, n + 1)>>
                      \o readlines(SubSeq(content, n + 2, Len(content)))

\* 'needle' in text, for a needle that is one lexeme.
Contains(text, needle) == \E i \in 1..Len(text) : text[i] = needle

\* str.endswith(suffix)
endswith(s, suffix) ==
    /\ Len(suffix) <= Len(s)
    /\ SubSeq(s, Len(s) - Len(suffix) + 1, Len(s)) = suffix

---------------------------------------------------------------------------
(* models.py: SparkConfig *)

SparkConfig(source_file) ==
    [ source_file                |-> source_file,
      driver_memory              |-> None,
      executor_memory            |-> None,
      executor_cores             |-> None,
      num_executors              |-> None,
      default_parallelism        |-> None,
      shuffle_partitions         |-> None,
      dynamic_allocation_enabled |-> FALSE,
      app_name                   |-> None,
      deploy_mode                |-> None,
      master                     |-> None,
      raw_configs                |-> <<>> ]

\* The outcome of a call: a returned value, or an exception that left none.
Returned(v) == [raised |-> FALSE, value |-> Some(v)]
Raised == [raised |-> TRUE, value |-> None]

---------------------------------------------------------------------------
(* spark_config_parser.py: the key/value dialect *)

\* re.split(r'\s+|=', line, maxsplit=1): cut at the leftmost whitespace run
\* or "=", whichever comes first; no separator leaves one part.
re_split_kv(line) ==
    LET n == SpanNot(line, 1, Whitespace \cup {"="})
        at == n + 1
    IN  IF n = Len(line) THEN <<line>>
        ELSE IF line[at] = "="
             THEN <<SubSeq(line, 1, n), SubSeq(line, at + 1, Len(line))>>
             ELSE <<SubSeq(line, 1, n),
                    SubSeq(line, at + Span(line, at, Whitespace), Len(line))>>

\* The promotion of one key/value pair to its typed field (the if/elif chain);
\* int() raising ValueError ends the call.
PromoteDefaults(config, key, value) ==
    CASE key = <<"spark.driver.memory">> ->
            Returned([config EXCEPT !.driver_memory = Some(value)])
      [] key = <<"spark.executor.memory">> ->
            Returned([config EXCEPT !.executor_memory = Some(value)])
      [] key = <<"spark.executor.cores">> ->
            IF PyInt(value) = None THEN Raised
            ELSE Returned([config EXCEPT !.executor_cores = PyInt(value)])
      [] key = <<"spark.executor.instances">> ->
            IF PyInt(value) = None THEN Raised
            ELSE Returned([config EXCEPT !.num_executors = PyInt(value)])
      [] key = <<"spark.default.parallelism">> ->
            IF PyInt(value) = None THEN Raised
            ELSE Returned([config EXCEPT !.default_parallelism = PyInt(value)])
      [] key = <<"spark.sql.shuffle.partitions">> ->
            IF PyInt(value) = None THEN Raised
            ELSE Returned([config EXCEPT !.shuffle_partitions = PyInt(value)])
      [] key = <<"spark.dynamicAllocation.enabled">> ->
            Returned([config EXCEPT
                !.dynamic_allocation_enabled = (lower(value) = <<"true">>)])
      [] key = <<"spark.app.name">> ->
            Returned([config EXCEPT !.app_name = Some(value)])
      [] OTHER -> Returned(config)

\* DefaultsLine testing the line as read, before it is stripped: a line of
\* whitespace is not taken for an empty one.
DefaultsLine_tests_raw_line(config, rawline) ==
    LET line == strip(rawline)
        parts == re_split_kv(rawline)
    IN  IF rawline = <<>> \/ Head(rawline) = "#" THEN Returned(config)
        ELSE IF Len(parts) # 2 THEN Returned(config)
        ELSE LET key == strip(parts[1])
                 value == strip(parts[2])
             IN  PromoteDefaults(
                     [config EXCEPT !.raw_configs = DictSet(@, key, value)],
                     key, value)

\* One iteration of the loop over the file's lines.
DefaultsLine(config, rawline) ==
    LET line == strip(rawline)
        parts == re_split_kv(line)
    IN  IF line = <<>> \/ Head(line) = "#" THEN Returned(config)
        ELSE IF Len(parts) # 2 THEN Returned(config)
        ELSE LET key == strip(parts[1])
                 value == strip(parts[2])
             IN  PromoteDefaults(
                     [config EXCEPT !.raw_configs = DictSet(@, key, value)],
                     key, value)

\* DefaultsLoop with the conversion error caught and the scan abandoned: the
\* record built so far is returned.
RECURSIVE DefaultsLoop_swallows_error(_, _)
DefaultsLoop_swallows_error(config, lines) ==
    IF lines = <<>> THEN Returned(config)
    ELSE LET r == DefaultsLine(config, Head(lines))
         IN  IF r.raised THEN Returned(config)
             ELSE DefaultsLoop_swallows_error(r.value[1], Tail(lines))

RECURSIVE DefaultsLoop(_, _)
DefaultsLoop(config, lines) ==
    IF lines = <<>> THEN Returned(config)
    ELSE LET r == DefaultsLine(config, Head(lines))
         IN  IF r.raised THEN Raised
             ELSE DefaultsLoop(r.value[1], Tail(lines))

\* parse_spark_defaults without its os.path.exists test: open() raises.
parse_spark_defaults_no_exists_test(path, file) ==
    IF ~file.exists THEN Raised
    ELSE DefaultsLoop(SparkConfig(path), readlines(file.content))

parse_spark_defaults(path, file) ==
    IF ~file.exists THEN Returned(SparkConfig(path))
    ELSE DefaultsLoop(SparkConfig(path), readlines(file.content))

---------------------------------------------------------------------------
(* spark_config_parser.py: the deploy-script dialect *)

\* The inner while: as long as the line built so far ends in a backslash and
\* a next physical line exists, drop the backslash and append the next line.
RECURSIVE JoinInner(_, _, _)
JoinInner(lines, i, line) ==
    IF endswith(line, <<"\\">>) /\ i + 1 <= Len(lines)
    THEN JoinInner(lines, i + 1,
             strip(SubSeq(line, 1, Len(line) - 1)) \o <<" ">>
                 \o rstrip_nl(strip(lines[i + 1])))
    ELSE [i |-> i, line |-> line]

\* The outer while, from physical line i (1-based) on: the logical lines.
RECURSIVE JoinLines(_, _)
JoinLines(lines, i) ==
    IF i > Len(lines) THEN <<>>
    ELSE LET r == JoinInner(lines, i, rstrip_nl(lines[i]))
         IN  <<r.line>> \o JoinLines(lines, r.i + 1)

\* ' '.join(command_lines)
RECURSIVE SpaceJoin(_)
SpaceJoin(ls) ==
    IF ls = <<>> THEN <<>>
    ELSE IF Len(ls) = 1 THEN ls[1]
    ELSE ls[1] \o <<" ">> \o SpaceJoin(Tail(ls))

Quotes == {"\"", "'"}

\* re.search(r'APP_NAME=["\'](.*?)["\']', s): group 1 of the leftmost match,
\* None without a match.  '.' does not match a newline.
RECURSIVE SearchAppName(_, _)
SearchAppName(s, p) ==
    IF p + 3 > Len(s) THEN None
    ELSE IF /\ s[p] = "APP_NAME" /\ s[p + 1] = "=" /\ s[p + 2] \in Quotes
            /\ LET n == SpanNot(s, p + 3, Quotes \cup {"\n"})
               IN  p + 3 + n <= Len(s) /\ s[p + 3 + n] \in Quotes
         THEN Some(SubSeq(s, p + 3, p + 2 + SpanNot(s, p + 3, Quotes \cup {"\n"})))
         ELSE SearchAppName(s, p + 1)

\* re.search(flag + r'\s+(\S+)', s): group 1 of the leftmost match.
RECURSIVE SearchFlagToken(_, _, _)
SearchFlagToken(s, flag, p) ==
    IF p > Len(s) THEN None
    ELSE LET w == Span(s, p + 1, Whitespace)
             n == SpanNot(s, p + 1 + w, Whitespace)
         IN  IF s[p] = flag /\ w >= 1 /\ n >= 1
             THEN Some(SubSeq(s, p + 1 + w, p + w + n))
             ELSE SearchFlagToken(s, flag, p + 1)

\* re.search(flag + r'\s+(\d+)', s): group 1 of the leftmost match.
RECURSIVE SearchFlagDigits(_, _, _)
SearchFlagDigits(s, flag, p) ==
    IF p > Len(s) THEN None
    ELSE LET w == Span(s, p + 1, Whitespace)
             n == Span(s, p + 1 + w, Digits)
         IN  IF s[p] = flag /\ w >= 1 /\ n >= 1
             THEN Some(SubSeq(s, p + 1 + w, p + w + n))
             ELSE SearchFlagDigits(s, flag, p + 1)

\* re.finditer(r'--conf\s+([^\s=]+)=(\S+)', s): the <<key, value>> groups of
\* the non-overlapping matches, left to right.
RECURSIVE FindConf(_, _)
FindConf(s, p) ==
    IF p > Len(s) THEN <<>>
    ELSE LET w == Span(s, p + 1, Whitespace)
             k0 == p + 1 + w
             kn == SpanNot(s, k0, Whitespace \cup {"="})
             eq == k0 + kn
             vn == SpanNot(s, eq + 1, Whitespace)
         IN  IF /\ s[p] = "--conf" /\ w >= 1 /\ kn >= 1
                /\ eq <= Len(s) /\ s[eq] = "=" /\ vn >= 1
             THEN << <<SubSeq(s, k0, eq - 1), SubSeq(s, eq + 1, eq + vn)>> >>
                      \o FindConf(s, eq + 1 + vn)
             ELSE FindConf(s, p + 1)

\* The pass over the positional flags (the patterns dict, in its order).
ApplyFlags(config, s) ==
    LET master == SearchFlagToken(s, "--master", 1)
        deploy_mode == SearchFlagToken(s, "--deploy-mode", 1)
        driver_memory == SearchFlagToken(s, "--driver-memory", 1)
        executor_memory == SearchFlagToken(s, "--executor-memory", 1)
        executor_cores == SearchFlagDigits(s, "--executor-cores", 1)
        num_executors == SearchFlagDigits(s, "--num-executors", 1)
    IN  [config EXCEPT
            !.master = IF master # None THEN master ELSE @,
            !.deploy_mode = IF deploy_mode # None THEN deploy_mode ELSE @,
            !.driver_memory = IF driver_memory # None THEN driver_memory ELSE @,
            !.executor_memory =
                IF executor_memory # None THEN executor_memory ELSE @,
            !.executor_cores =
                IF executor_cores # None THEN PyInt(executor_cores[1]) ELSE @,
            !.num_executors =
                IF num_executors # None THEN PyInt(num_executors[1]) ELSE @]

\* One --conf match: stored raw, then promoted if recognized.
PromoteConf(config, key, value) ==
    CASE key = <<"spark.default.parallelism">> ->
            IF PyInt(value) = None THEN Raised
            ELSE Returned([config EXCEPT !.default_parallelism = PyInt(value)])
      [] key = <<"spark.sql.shuffle.partitions">> ->
            IF PyInt(value) = None THEN Raised
            ELSE Returned([config EXCEPT !.shuffle_partitions = PyInt(value)])
      [] key = <<"spark.dynamicAllocation.enabled">> ->
            Returned([config EXCEPT
                !.dynamic_allocation_enabled = (lower(value) = <<"true">>)])
      [] OTHER -> Returned(config)

RECURSIVE ConfLoop(_, _)
ConfLoop(config, matches) ==
    IF matches = <<>> THEN Returned(config)
    ELSE LET key == Head(matches)[1]
             value == Head(matches)[2]
             r == PromoteConf(
                      [config EXCEPT !.raw_configs = DictSet(@, key, value)],
                      key, value)
         IN  IF r.raised THEN Raised
             ELSE ConfLoop(r.value[1], Tail(matches))

\* The --name fallback, taken when app_name is falsy.
ApplyNameFlag(config, s) ==
    LET name == SearchFlagToken(s, "--name", 1)
    IN  IF ~TruthyStr(config.app_name) /\ name # None
        THEN [config EXCEPT !.app_name = name]
        ELSE config

\* The APP_NAME pass.
ApplyAppName(config, s) ==
    LET m == SearchAppName(s, 1)
    IN  IF m # None THEN [config EXCEPT !.app_name = m] ELSE config

full_command(content) == SpaceJoin(JoinLines(readlines(content), 1))

parse_spark_submit_script(path, file) ==
    IF ~file.exists THEN Returned(SparkConfig(path))
    ELSE LET s == full_command(file.content)
             c1 == ApplyAppName(SparkConfig(path), s)
             c2 == ApplyFlags(c1, s)
             r == ConfLoop(c2, FindConf(s, 1))
         IN  IF r.raised THEN Raised
             ELSE Returned(ApplyNameFlag(r.value[1], s))

---------------------------------------------------------------------------
(* spark_config_parser.py: the dispatcher *)

\* Dispatch with the content sniffed before the path's suffix is looked at.
Dispatch_sniffs_first(path, file) ==
    IF file.exists /\ Contains(file.content, "spark-submit") THEN "script"
    ELSE IF endswith(path, <<".sh">>) THEN "script"
    ELSE "defaults"

\* The sub-parser parse_file hands the path to.
Dispatch(path, file) ==
    IF endswith(path, <<"spark-defaults.conf">>) THEN "defaults"
    ELSE IF endswith(path, <<".sh">>) THEN "script"
    ELSE IF file.exists /\ Contains(file.content, "spark-submit") THEN "script"
    ELSE "defaults"

parse_file(path, file) ==
    IF Dispatch(path, file) = "script"
    THEN parse_spark_submit_script(path, file)
    ELSE parse_spark_defaults(path, file)

---------------------------------------------------------------------------
(* The inputs of the parser: paths and file contents *)

MaxLines == 2   \* lines of a settings file
MaxItems == 2   \* arguments of a deploy script

RECURSIVE Concat(_)
Concat(ss) == IF ss = <<>> THEN <<>> ELSE Head(ss) \o Concat(Tail(ss))

\* All sequences over S of length at most n.
SeqsUpTo(S, n) == UNION {[1..k -> S] : k \in 0..n}

Paths ==
    { <<"conf/", "spark-defaults.conf">>,
      <<"deploy", ".sh">>,
      <<"job", ".txt">>,
      <<"spark-defaults.conf", ".bak">> }

IntKeys ==
    { "spark.executor.cores", "spark.executor.instances",
      "spark.default.parallelism", "spark.sql.shuffle.partitions" }

\* The lines of a settings file, without their newline.
KVLines ==
    { <<>>, <<" ", "\t">>, <<" ", "#", "x">>, <<"spark.foo">>,
      <<"spark.driver.memory", "=", "2", "g">>,
      <<"spark.driver.memory", " ", "8", "g">>,
      <<"spark.executor.memory", " ", "4", "g">>,
      <<"spark.executor.cores", " ", "=", " ", "4">>,
      <<"spark.executor.cores", "=">>,
      <<"spark.sql.shuffle.partitions", "=", "-", "4">>,
      <<"spark.executor.cores", "=", "1", "_", "0">>,
      <<"spark.default.parallelism", "=", "4", "_">>,
      <<"spark.dynamicAllocation.enabled", "=", "True">>,
      <<"spark.dynamicAllocation.enabled", "\t", "false">>,
      <<"spark.app.name", "=", "x">>,
      <<"spark.foo", "=", "x">>,
      <<"spark-submit", " ", "x">> }
    \cup { <<k, "=", "4">> : k \in IntKeys }
    \cup { <<k, " ", "4", "x">> : k \in IntKeys }

KVContent(lines) == Concat([i \in 1..Len(lines) |-> lines[i] \o <<"\n">>])

KVContents(n) == { KVContent(ls) : ls \in SeqsUpTo(KVLines, n) }

\* The arguments of a deploy script: each a sequence of words.
ScriptItems ==
    { << <<"spark-submit">> >>,
      << <<"--master">>, <<"yarn">> >>,
      << <<"--deploy-mode">>, <<"cluster">> >>,
      << <<"--driver-memory">>, <<"2", "g">> >>,
      << <<"--executor-memory">>, <<"4", "g">> >>,
      << <<"--executor-cores">>, <<"4">> >>,
      << <<"--executor-cores">>, <<"x">> >>,
      << <<"--executor-cores">>, <<"4", "x">> >>,
      << <<"--num-executors">>, <<"1", "0">> >>,
      << <<"--num-executors">>, <<"x">> >>,
      << <<"--conf">>, <<"spark.default.parallelism", "=", "4">> >>,
      << <<"--conf">>, <<"spark.default.parallelism", "=", "4", "x">> >>,
      << <<"--conf">>, <<"spark.sql.shuffle.partitions", "=", "4">> >>,
      << <<"--conf">>, <<"spark.sql.shuffle.partitions", "=", "x">> >>,
      << <<"--conf">>, <<"spark.sql.shuffle.partitions", "=", "1", "_", "0">> >>,
      << <<"--conf">>, <<"spark.dynamicAllocation.enabled", "=", "true">> >>,
      << <<"--conf">>, <<"spark.foo", "=", "x">> >>,
      << <<"--name">>, <<"foo">> >>,
      << <<"APP_NAME", "=", "\"", "\"">> >>,
      << <<"APP_NAME", "=", "\"", "a", "\"">> >>,
      << <<"APP_NAME", "=", "'", "b", "'">> >> }

\* What stands between two words of a script: a space, a line break, or a
\* backslash continuation (with and without blanks around it).
ScriptSeps ==
    { <<" ">>, <<"\n">>, <<"\\", "\n">>, <<" ", "\\", "\n", " ", " ">> }

RECURSIVE SepJoin(_, _)
SepJoin(words, sep) ==
    IF words = <<>> THEN <<>>
    ELSE IF Len(words) = 1 THEN words[1]
    ELSE words[1] \o sep \o SepJoin(Tail(words), sep)

ScriptContent(items, sep) == SepJoin(Concat(items), sep) \o <<"\n">>

ScriptContents(n) ==
    { ScriptContent(items, sep) :
        items \in SeqsUpTo(ScriptItems, n), sep \in ScriptSeps }

File(content) == [exists |-> TRUE, content |-> content]
Missing == [exists |-> FALSE, content |-> <<>>]

\* The parser's inputs: settings files under the settings filename, deploy
\* scripts under the script extension, and every path with a short file of
\* either kind or with no file at all.
ParserInputs ==
    { <<p, Missing>> : p \in Paths }
    \cup { << <<"conf/", "spark-defaults.conf">>, File(c)>> : c \in KVContents(MaxLines) }
    \cup { << <<"deploy", ".sh">>, File(c)>> : c \in ScriptContents(MaxItems) }
    \cup { <<p, File(c)>> : p \in Paths, c \in KVContents(1) \cup ScriptContents(1) }

---------------------------------------------------------------------------
(* The parser as a state machine: one action per entry point *)

NoCall == [raised |-> FALSE, value |-> None]

ParserIdle ==
    /\ call = "none"
    /\ dialect = "none"
    /\ ret = NoCall

AnalyzerIdle ==
    /\ a_called = FALSE
    /\ a_recs = <<>>
    /\ a_raised = FALSE

AnalyzerUnused ==
    /\ a_config = SparkConfig(<<>>)
    /\ a_metrics = None
    /\ AnalyzerIdle

JoinUnused ==
    /\ j_lines = <<>>
    /\ j_i = 0
    /\ j_line = <<>>
    /\ j_out = <<>>
    /\ j_pc = "idle"

ResponseUnused ==
    /\ r_text = <<>>
    /\ r_called = FALSE
    /\ r_ret = [raised |-> FALSE, summary |-> <<>>, recs |-> <<>>]

AnalyzeUnused ==
    /\ z_client = FALSE
    /\ z_reply = [kind |-> "error", content |-> <<>>]
    /\ z_pc = "idle"
    /\ z_recs = <<>>
    /\ z_summary = <<>>
    /\ z_raised = FALSE

HistoryUnused ==
    /\ h_use_mock = FALSE
    /\ h_env = None
    /\ h_http = [kind |-> "none"]
    /\ h_mock_file = Missing
    /\ h_app_id = <<>>
    /\ h_pc = "idle"
    /\ h_ret = [raised |-> FALSE, value |-> None]

MemoryUnused ==
    /\ m_str = <<>>
    /\ m_called = FALSE
    /\ m_ret = [raised |-> FALSE, value |-> None]
    /\ m_eng_called = FALSE
    /\ m_eng_ret = [raised |-> FALSE, value |-> None]

TwiceUnused ==
    /\ t_path = <<>>
    /\ t_fs = Missing
    /\ t_fn = "none"
    /\ t_heap = <<>>
    /\ t_first = NoCall
    /\ t_second = NoCall
    /\ t_pc = "idle"

DirUnused ==
    /\ d_dir = <<>>
    /\ d_root = [kind |-> "missing", entries |-> <<>>]
    /\ d_called = FALSE
    /\ d_ret = NoCall

\* No tool call yet.
NoToolCall == [tool |-> "none", arg |-> <<>>, before |-> FALSE, used |-> <<>>, failed |-> "none"]

ServerUnused ==
    /\ s_env = None
    /\ s_use_mock = FALSE
    /\ s_mock_file = [exists |-> FALSE, malformed |-> FALSE, applications |-> <<>>]
    /\ s_calls = 0
    /\ s_last = NoToolCall

InitParser ==
    /\ \E in \in ParserInputs : file_path = in[1] /\ fs = in[2]
    /\ ParserIdle
    /\ AnalyzerUnused
    /\ JoinUnused
    /\ ResponseUnused
    /\ AnalyzeUnused
    /\ HistoryUnused
    /\ MemoryUnused
    /\ TwiceUnused
    /\ DirUnused
    /\ ServerUnused

ParseSparkDefaults ==
    /\ call' = "parse_spark_defaults"
    /\ dialect' = "defaults"
    /\ ret' = parse_spark_defaults(file_path, fs)
    /\ UNCHANGED <<file_path, fs>>
    /\ UNCHANGED <<analyzer_vars, join_vars, response_vars, analyze_vars, history_vars, memory_vars, twice_vars, dir_vars, server_vars>>

ParseSparkSubmitScript ==
    /\ call' = "parse_spark_submit_script"
    /\ dialect' = "script"
    /\ ret' = parse_spark_submit_script(file_path, fs)
    /\ UNCHANGED <<file_path, fs>>
    /\ UNCHANGED <<analyzer_vars, join_vars, response_vars, analyze_vars, history_vars, memory_vars, twice_vars, dir_vars, server_vars>>

ParseFile ==
    /\ call' = "parse_file"
    /\ dialect' = Dispatch(file_path, fs)
    /\ ret' = parse_file(file_path, fs)
    /\ UNCHANGED <<file_path, fs>>
    /\ UNCHANGED <<analyzer_vars, join_vars, response_vars, analyze_vars, history_vars, memory_vars, twice_vars, dir_vars, server_vars>>

NextParser == ParseSparkDefaults \/ ParseSparkSubmitScript \/ ParseFile

Spec == InitParser /\ [][NextParser]_vars

---------------------------------------------------------------------------
(* models.py: ExecutionMetrics and Recommendation *)

\* A byte count is a Python int, which has no width; it is kept here as two
\* limbs, hi * 2^15 + lo with lo < 2^15, so that counts of several GiB and
\* ten times such counts stay exact.
Limb == 2 ^ 15

\* A byte count top * 2^45 + hi * 2^15 + lo, with lo < 2^15 and hi < 2^30.
BigBytes(top, hi, lo) == [top |-> top, hi |-> hi, lo |-> lo]

Bytes(hi, lo) == BigBytes(0, hi, lo)

GiBytes(n) == Bytes(n * Limb, 0)

BytesIsZero(b) == b.top = 0 /\ b.hi = 0 /\ b.lo = 0

BytesLess(a, b) ==
    \/ a.top < b.top
    \/ a.top = b.top /\ a.hi < b.hi
    \/ a.top = b.top /\ a.hi = b.hi /\ a.lo < b.lo

\* Python's unbounded int as its digits in base 2^15, least significant first.
Limbs(b) ==
    << b.lo, b.hi % Limb, b.hi \div Limb, b.top % Limb, b.top \div Limb >>

RECURSIVE BigScale(_, _, _)
\* a * d + carry for one digit d.
BigScale(a, d, carry) ==
    IF a = <<>> THEN (IF carry = 0 THEN <<>> ELSE <<carry>>)
    ELSE LET p == Head(a) * d + carry
         IN  <<p % Limb>> \o BigScale(Tail(a), d, p \div Limb)

RECURSIVE BigAdd(_, _, _)
BigAdd(a, b, carry) ==
    IF a = <<>> /\ b = <<>> THEN (IF carry = 0 THEN <<>> ELSE <<carry>>)
    ELSE LET x == IF a = <<>> THEN 0 ELSE Head(a)
             y == IF b = <<>> THEN 0 ELSE Head(b)
             t == x + y + carry
         IN  <<t % Limb>>
               \o BigAdd(IF a = <<>> THEN <<>> ELSE Tail(a),
                         IF b = <<>> THEN <<>> ELSE Tail(b), t \div Limb)

RECURSIVE BigMul(_, _)
BigMul(a, b) ==
    IF b = <<>> THEN <<>>
    ELSE BigAdd(BigScale(a, Head(b), 0), <<0>> \o BigMul(a, Tail(b)), 0)

RECURSIVE BigCmp(_, _)
\* -1, 0 or 1 as a < b, a = b or a > b.
BigCmp(a, b) ==
    IF a = <<>> /\ b = <<>> THEN 0
    ELSE LET x == IF a = <<>> THEN 0 ELSE Head(a)
             y == IF b = <<>> THEN 0 ELSE Head(b)
             c == BigCmp(IF a = <<>> THEN <<>> ELSE Tail(a),
                         IF b = <<>> THEN <<>> ELSE Tail(b))
         IN  IF c # 0 THEN c ELSE IF x < y THEN 0 - 1 ELSE IF x > y THEN 1 ELSE 0

RECURSIVE Normalize(_)
\* A Python int as limbs (base 2^15, least significant first) has no leading
\* zero limb; 0 is <<>>.
Normalize(a) ==
    IF a # <<>> /\ a[Len(a)] = 0 THEN Normalize(SubSeq(a, 1, Len(a) - 1)) ELSE a

\* The limbs of an int below 2^31.
IntLimbs(n) == Normalize(<< n % Limb, (n \div Limb) % Limb, n \div (Limb * Limb) >>)

RECURSIVE DigitsLimbs(_, _)
\* int(digits) for a run of decimal digits: a Python int, of any size.
DigitsLimbs(digits, acc) ==
    IF digits = <<>> THEN acc
    ELSE DigitsLimbs(Tail(digits), BigScale(acc, 10, DigitVal(Head(digits))))

\* Python truthiness of an Optional[int] held as limbs: None and 0 are falsy.
TruthyBig(o) == o # None /\ o[1] # <<>>

\* The float literal 0.1 is 7205759403792794 * 2^-56, and int / int is the
\* exact quotient rounded to the nearest float, ties to the even one.  So
\* a / b > 0.1 exactly when a / b > (7205759403792794 + 1/2) * 2^-56, that is
\* when a * 2^57 > 14411518807585589 * b.
TenthMidpoint == << 13109, 26214, 19660, 409 >>

TwoTo57 == << 0, 0, 0, 2 ^ 12 >>

TrueDivExceedsTenth(a, b) ==
    BigCmp(BigMul(Limbs(a), TwoTo57), BigMul(Limbs(b), TenthMidpoint)) = 1

\* The fields of ExecutionMetrics the rule battery reads.
ExecutionMetrics(input_bytes, used, spilled) ==
    [ input_bytes             |-> input_bytes,
      executor_memory_used    |-> used,
      executor_memory_spilled |-> spilled ]

\* The test written as `!= 0`: None passes it.
TruthyBytes_nonzero_test(o) == o = None \/ ~BytesIsZero(o[1])

\* Python truthiness of an Optional[int] byte count: None and 0 are falsy.
TruthyBytes(o) == o # None /\ ~BytesIsZero(o[1])

Recommendation(severity, category, title, description, current_value, recommended_value, expected_impact) ==
    [ severity          |-> severity,
      category          |-> category,
      title             |-> title,
      description       |-> description,
      current_value     |-> current_value,
      recommended_value |-> recommended_value,
      expected_impact   |-> expected_impact ]

\* str(n) for an int.
RECURSIVE NatToText(_)
NatToText(n) ==
    LET d == CHOOSE c \in Digits : DigitVal(c) = n % 10
    IN  IF n < 10 THEN <<d>> ELSE Append(NatToText(n \div 10), d)

IntToText(n) == IF n < 0 THEN <<"-">> \o NatToText(0 - n) ELSE NatToText(n)

---------------------------------------------------------------------------
(* config_analyzer.py: the rule battery (Stage A) *)

\* ConfigAnalyzer._parse_memory_mb: re.match(r'(\d+)([kmgt]?)', s.lower()),
\* leading digits times the unit's multiplier, a Python int kept as limbs;
\* None without leading digits.
MemoryMultiplier(unit) ==
    CASE unit = "k" -> 1
      [] unit = "m" -> 1
      [] unit = "g" -> 1024
      [] unit = "t" -> 1024 * 1024
      [] OTHER -> 1

_parse_memory_mb(memory_str) ==
    LET s == lower(memory_str)
        n == Span(s, 1, Digits)
        unit == IF n + 1 <= Len(s) /\ s[n + 1] \in {"k", "m", "g", "t"}
                THEN s[n + 1] ELSE ""
    IN  IF n = 0 THEN None
        ELSE Some(Normalize(BigMul(DigitsLimbs(SubSeq(s, 1, n), <<>>),
                                   IntLimbs(MemoryMultiplier(unit)))))

DriverMemoryLimitMB == 10240
ShufflePartitionsLimit == 200
SmallDatasetGiB == 10

\* Rule 1: driver memory.
RuleDriverMemory(config) ==
    IF /\ TruthyStr(config.driver_memory)
       /\ TruthyBig(_parse_memory_mb(config.driver_memory[1]))
       /\ BigCmp(_parse_memory_mb(config.driver_memory[1])[1],
                 IntLimbs(DriverMemoryLimitMB)) = 1
    THEN << Recommendation("critical", <<"resource_allocation">>,
               <<"Excessive Driver Memory">>,
               <<"Driver memory is oversized for typical workloads. This wastes resources and increases costs.">>,
               config.driver_memory, Some(<<"2g-4g">>),
               Some(<<"Reduce resource waste and costs by 50-75%">>)) >>
    ELSE <<>>

\* Rule 2: shuffle partitions; input_bytes / 1024**3 < 10 is exact, the
\* divisor being a power of two.
RuleShufflePartitions(config, metrics) ==
    IF /\ TruthyInt(config.shuffle_partitions)
       /\ config.shuffle_partitions[1] > ShufflePartitionsLimit
       /\ metrics # None
       /\ TruthyBytes(metrics[1].input_bytes)
       /\ BytesLess(metrics[1].input_bytes[1], GiBytes(SmallDatasetGiB))
    THEN << Recommendation("warning", <<"performance_tuning">>,
               <<"Inefficient Shuffle Partitions">>,
               <<"Too many shuffle partitions for dataset size causes overhead.">>,
               Some(IntToText(config.shuffle_partitions[1])), Some(<<"50-100">>),
               Some(<<"Reduce shuffle overhead by 30-40%">>)) >>
    ELSE <<>>

\* Rule 3 made to wait for the flag to be set: it fires when enabled.
RuleDynamicAllocation_inverted(config) ==
    IF config.dynamic_allocation_enabled
    THEN << Recommendation("info", <<"best_practices">>,
               <<"Enable Dynamic Allocation">>,
               <<"Dynamic allocation can optimize resource usage automatically.">>,
               Some(<<"false">>), Some(<<"true">>),
               Some(<<"Better resource utilization and cost savings">>)) >>
    ELSE <<>>

\* Rule 3: dynamic allocation.
RuleDynamicAllocation(config) ==
    IF ~config.dynamic_allocation_enabled
    THEN << Recommendation("info", <<"best_practices">>,
               <<"Enable Dynamic Allocation">>,
               <<"Dynamic allocation can optimize resource usage automatically.">>,
               Some(<<"false">>), Some(<<"true">>),
               Some(<<"Better resource utilization and cost savings">>)) >>
    ELSE <<>>

\* Rule 4: memory spilling; spilled / max(used or 1, 1) > 0.1 in floats.
SpillDenominator(used) == IF TruthyBytes(used) THEN used[1] ELSE Bytes(0, 1)

RuleMemorySpilling(config, metrics) ==
    IF /\ metrics # None
       /\ TruthyBytes(metrics[1].executor_memory_spilled)
       /\ TrueDivExceedsTenth(metrics[1].executor_memory_spilled[1],
                              SpillDenominator(metrics[1].executor_memory_used))
    THEN << Recommendation("warning", <<"performance_tuning">>,
               <<"High Memory Spilling">>,
               <<"Significant memory spilling detected. Increase executor memory.">>,
               IF TruthyStr(config.executor_memory) THEN config.executor_memory
               ELSE Some(<<"unknown">>),
               Some(<<"Increase by 50%">>),
               Some(<<"Reduce disk I/O and improve performance by 20-30%">>)) >>
    ELSE <<>>

_rule_based_analysis(config, metrics) ==
    RuleDriverMemory(config) \o RuleShufflePartitions(config, metrics)
        \o RuleDynamicAllocation(config) \o RuleMemorySpilling(config, metrics)

\* The operators of the rule battery that raise TypeError on None: each is
\* listed with the tests under which the code reaches it and the operand
\* that would have to be None.
\* driver_mb > 10240 (behind `driver_mb and`).
RaisesDriverMemory(config) ==
    /\ TruthyStr(config.driver_memory)
    /\ TruthyBig(_parse_memory_mb(config.driver_memory[1]))
    /\ _parse_memory_mb(config.driver_memory[1]) = None

\* config.shuffle_partitions > 200 (behind `config.shuffle_partitions and`),
\* metrics.input_bytes / (1024**3) (behind `metrics and metrics.input_bytes`).
RaisesShufflePartitions(config, metrics) ==
    /\ TruthyInt(config.shuffle_partitions)
    /\ \/ config.shuffle_partitions = None
       \/ /\ config.shuffle_partitions[1] > ShufflePartitionsLimit
          /\ metrics # None
          /\ TruthyBytes(metrics[1].input_bytes)
          /\ metrics[1].input_bytes = None

\* executor_memory_spilled / max(executor_memory_used or 1, 1) (behind
\* `metrics and metrics.executor_memory_spilled`).
RaisesMemorySpilling(metrics) ==
    /\ metrics # None
    /\ TruthyBytes(metrics[1].executor_memory_spilled)
    /\ \/ metrics[1].executor_memory_spilled = None
       \/ /\ TruthyBytes(metrics[1].executor_memory_used)
          /\ metrics[1].executor_memory_used = None

_rule_based_analysis_raises(config, metrics) ==
    \/ RaisesDriverMemory(config)
    \/ RaisesShufflePartitions(config, metrics)
    \/ RaisesMemorySpilling(metrics)

---------------------------------------------------------------------------
(* The inputs of the rule battery *)

\* driver_memory: absent, empty, sizes in every unit on both sides of
\* 10240 MB, in both letter cases, with a fraction, with a 'b', and texts that
\* are no size.
DriverMemories ==
    { None, Some(<<>>),
      Some(<<"5", "1", "2", "m">>),
      Some(<<"1", "0", "g">>), Some(<<"1", "1", "g">>), Some(<<"2", "0", "G">>),
      Some(<<"1", "0", "2", "4", "0", "m">>), Some(<<"1", "0", "2", "4", "1", "M">>),
      Some(<<"1", "0", "2", "4", "0">>), Some(<<"1", "0", "2", "4", "1">>),
      Some(<<"2", "0", "0", "0", "0", "k">>),
      Some(<<"1", "0", "4", "8", "5", "7", "6", "1", "k">>),
      Some(<<"1", "t">>), Some(<<"0", "t">>),
      Some(<<"2", "0", "g", "b">>),
      Some(<<"1", "0", ".", "5", "g">>),
      Some(<<"x">>), Some(<<"g">>) }

ExecutorMemories == { None, Some(<<"4", "g">>) }

ShufflePartitionCounts == { None, Some(0), Some(200), Some(201), Some(500) }

InputByteCounts ==
    { None, Some(Bytes(0, 0)), Some(Bytes(0, 1)), Some(GiBytes(5)),
      Some(Bytes(10 * Limb - 1, Limb - 1)), Some(GiBytes(10)), Some(GiBytes(50)) }

\* Among them u = 8006399337547539 and u = 9007199254740999 bytes used, with
\* (u + 1) / 10 bytes spilled: 800639933754754 and 900719925474100.
UsedByteCounts ==
    { None, Some(Bytes(0, 0)), Some(Bytes(0, 10)), Some(GiBytes(40)),
      Some(GiBytes(100)),
      Some(BigBytes(227, 596523235, 18195)),
      Some(BigBytes(256, 0, 7)) }

SpilledByteCounts ==
    { None, Some(Bytes(0, 0)), Some(Bytes(0, 1)), Some(GiBytes(4)),
      Some(GiBytes(5)),
      Some(BigBytes(22, 811271600, 11650)),
      Some(BigBytes(25, 644245094, 13108)) }

AnalyzerConfigs ==
    { [SparkConfig(<<"conf/", "spark-defaults.conf">>) EXCEPT
          !.driver_memory = dm, !.executor_memory = em,
          !.shuffle_partitions = sp, !.dynamic_allocation_enabled = da] :
        dm \in DriverMemories, em \in ExecutorMemories,
        sp \in ShufflePartitionCounts, da \in BOOLEAN }

AnalyzerMetrics ==
    { None } \cup
    { Some(ExecutionMetrics(ib, used, spilled)) :
        ib \in InputByteCounts, used \in UsedByteCounts,
        spilled \in SpilledByteCounts }

---------------------------------------------------------------------------
(* The rule battery as a state machine *)

InitAnalyzer ==
    /\ file_path = <<>>
    /\ fs = Missing
    /\ ParserIdle
    /\ a_config \in AnalyzerConfigs
    /\ a_metrics \in AnalyzerMetrics
    /\ AnalyzerIdle
    /\ JoinUnused
    /\ ResponseUnused
    /\ AnalyzeUnused
    /\ HistoryUnused
    /\ MemoryUnused
    /\ TwiceUnused
    /\ DirUnused
    /\ ServerUnused

RuleBasedAnalysis ==
    /\ a_called' = TRUE
    /\ a_raised' = _rule_based_analysis_raises(a_config, a_metrics)
    /\ a_recs' = IF _rule_based_analysis_raises(a_config, a_metrics) THEN <<>>
                 ELSE _rule_based_analysis(a_config, a_metrics)
    /\ UNCHANGED <<a_config, a_metrics>>
    /\ UNCHANGED <<parser_vars, join_vars, response_vars, analyze_vars, history_vars, memory_vars, twice_vars, dir_vars, server_vars>>

NextAnalyzer == RuleBasedAnalysis

SpecAnalyzer == InitAnalyzer /\ [][NextAnalyzer]_vars

---------------------------------------------------------------------------
(* The line-joining loop of parse_spark_submit_script, step by step *)

MaxPhysLines == 3   \* physical lines of a script

\* Physical lines, without their newline: plain, continued (with and without
\* blanks around the backslash), a lone backslash, a backslash followed by a
\* blank, empty, and a flag whose value is on the next line.
PhysLines ==
    { <<"a">>, <<"b", "\\">>, <<" ", "c", " ", "\\">>, <<"\\">>,
      <<"d", "\\", " ">>, <<>>,
      <<"--executor-cores", " ", "\\">>, <<" ", "4">> }

\* Scripts of up to MaxPhysLines lines; the last line may lack its newline.
JoinContents ==
    LET full == { KVContent(ls) : ls \in SeqsUpTo(PhysLines, MaxPhysLines) }
    IN  full \cup { SubSeq(c, 1, Len(c) - 1) : c \in full \ {<<>>} }

InitJoin ==
    /\ file_path = <<"deploy", ".sh">>
    /\ \E c \in JoinContents : fs = File(c) /\ j_lines = readlines(c)
    /\ ParserIdle
    /\ AnalyzerUnused
    /\ j_i = 0
    /\ j_line = <<>>
    /\ j_out = <<>>
    /\ j_pc = "outer"
    /\ ResponseUnused
    /\ AnalyzeUnused
    /\ HistoryUnused
    /\ MemoryUnused
    /\ TwiceUnused
    /\ DirUnused
    /\ ServerUnused

\* while i < len(lines): line = lines[i].rstrip('\n')
JoinOuterEnter ==
    /\ j_pc = "outer"
    /\ j_i < Len(j_lines)
    /\ j_line' = rstrip_nl(j_lines[j_i + 1])
    /\ j_pc' = "inner"
    /\ UNCHANGED <<j_lines, j_i, j_out>>
    /\ UNCHANGED <<parser_vars, analyzer_vars, response_vars, analyze_vars, history_vars, memory_vars, twice_vars, dir_vars, server_vars>>

\* the outer loop's test fails
JoinOuterExit ==
    /\ j_pc = "outer"
    /\ ~(j_i < Len(j_lines))
    /\ j_pc' = "done"
    /\ UNCHANGED <<j_lines, j_i, j_line, j_out>>
    /\ UNCHANGED <<parser_vars, analyzer_vars, response_vars, analyze_vars, history_vars, memory_vars, twice_vars, dir_vars, server_vars>>

JoinInnerTest == endswith(j_line, <<"\\">>) /\ j_i + 1 < Len(j_lines)

\* while line.endswith('\\') and i + 1 < len(lines): join the next line
JoinInnerStep ==
    /\ j_pc = "inner"
    /\ JoinInnerTest
    /\ j_line' = strip(SubSeq(j_line, 1, Len(j_line) - 1)) \o <<" ">>
                     \o rstrip_nl(strip(j_lines[j_i + 2]))
    /\ j_i' = j_i + 1
    /\ UNCHANGED <<j_lines, j_out, j_pc>>
    /\ UNCHANGED <<parser_vars, analyzer_vars, response_vars, analyze_vars, history_vars, memory_vars, twice_vars, dir_vars, server_vars>>

\* command_lines.append(line); i += 1
JoinInnerExit ==
    /\ j_pc = "inner"
    /\ ~JoinInnerTest
    /\ j_out' = Append(j_out, j_line)
    /\ j_i' = j_i + 1
    /\ j_pc' = "outer"
    /\ UNCHANGED <<j_lines, j_line>>
    /\ UNCHANGED <<parser_vars, analyzer_vars, response_vars, analyze_vars, history_vars, memory_vars, twice_vars, dir_vars, server_vars>>

NextJoin == JoinOuterEnter \/ JoinOuterExit \/ JoinInnerStep \/ JoinInnerExit

SpecJoin == InitJoin /\ [][NextJoin]_vars

\* The loop is sequential code: a step that can be taken is taken.
SpecJoinFair == SpecJoin /\ WF_vars(NextJoin)

\* The loop ends, with the logical lines the whole-call operator computes.
JoinTerminates == <>(j_pc = "done")

JoinAgreesWithCall == j_pc = "done" => j_out = JoinLines(j_lines, 1)

---------------------------------------------------------------------------
(* Claims about the parser (specification Spec) *)

Record == ret.value[1]

\* C1: every typed field that is set also has an entry in raw_configs under
\* its canonical setting name, holding the raw string it was read from.
C1_TypedFieldsAreInRawConfigs ==
    (call # "none" /\ ~ret.raised) =>
        LET raw == Record.raw_configs
            StrIn(f, key) ==
                f # None => DictHas(raw, <<key>>) /\ DictGet(raw, <<key>>) = f[1]
            IntIn(f, key) ==
                f # None => DictHas(raw, <<key>>) /\ PyInt(DictGet(raw, <<key>>)) = f
        IN  /\ StrIn(Record.driver_memory, "spark.driver.memory")
            /\ StrIn(Record.executor_memory, "spark.executor.memory")
            /\ IntIn(Record.executor_cores, "spark.executor.cores")
            /\ IntIn(Record.num_executors, "spark.executor.instances")
            /\ IntIn(Record.default_parallelism, "spark.default.parallelism")
            /\ IntIn(Record.shuffle_partitions, "spark.sql.shuffle.partitions")
            /\ StrIn(Record.app_name, "spark.app.name")
            /\ StrIn(Record.deploy_mode, "spark.submit.deployMode")
            /\ StrIn(Record.master, "spark.master")
            /\ Record.dynamic_allocation_enabled =>
                  /\ DictHas(raw, <<"spark.dynamicAllocation.enabled">>)
                  /\ lower(DictGet(raw, <<"spark.dynamicAllocation.enabled">>))
                         = <<"true">>

\* C2: for a path that does not exist, whatever its suffix, parse_file
\* returns without raising a record that holds the path and nothing else.
C2_MissingFileGivesEmptyRecord ==
    (call = "parse_file" /\ ~fs.exists) =>
        /\ ~ret.raised
        /\ Record.source_file = file_path
        /\ Record.driver_memory = None
        /\ Record.executor_memory = None
        /\ Record.executor_cores = None
        /\ Record.num_executors = None
        /\ Record.default_parallelism = None
        /\ Record.shuffle_partitions = None
        /\ Record.dynamic_allocation_enabled = FALSE
        /\ Record.app_name = None
        /\ Record.deploy_mode = None
        /\ Record.master = None
        /\ Record.raw_configs = <<>>

C2_Witness ==
    /\ call = "parse_file"
    /\ ~fs.exists
    /\ endswith(file_path, <<".sh">>)
    /\ ~ret.raised

\* A base-10 integer: an optional sign and one or more digits.
IsBase10Integer(v) ==
    LET body == IF v # <<>> /\ Head(v) \in {"+", "-"} THEN Tail(v) ELSE v
    IN  body # <<>> /\ \A i \in 1..Len(body) : body[i] \in Digits

\* A base-10 integer whose digits may be grouped: an optional sign, then
\* digits with at most one underscore between two of them.
IsGroupedBase10Integer(v) ==
    LET body == IF v # <<>> /\ Head(v) \in {"+", "-"} THEN Tail(v) ELSE v
    IN  /\ body # <<>>
        /\ \A i \in 1..Len(body) :
               \/ body[i] \in Digits
               \/ /\ body[i] = "_"
                  /\ 1 < i /\ i < Len(body)
                  /\ body[i - 1] \in Digits /\ body[i + 1] \in Digits

\* The value a line of a settings file gives a recognized integer setting,
\* in a one-element set; empty for any other line.
IntegerSettingOfLine(rawline) ==
    LET line == strip(rawline)
        parts == re_split_kv(line)
    IN  IF /\ line # <<>>
           /\ Head(line) # "#"
           /\ Len(parts) = 2
           /\ strip(parts[1]) \in { <<k>> : k \in IntKeys }
        THEN { strip(parts[2]) }
        ELSE {}

\* The values the lines of the file give to recognized integer settings.
IntegerSettingsOfFile ==
    UNION { IntegerSettingOfLine(readlines(fs.content)[i]) :
                i \in 1..Len(readlines(fs.content)) }

\* The values the --conf occurrences of the script give to recognized
\* integer settings.
IntegerSettingsOfScript ==
    LET ms == FindConf(full_command(fs.content), 1)
    IN  { ms[i][2] : i \in { j \in 1..Len(ms) :
              ms[j][1] \in { <<"spark.default.parallelism">>,
                             <<"spark.sql.shuffle.partitions">> } } }

\* The values the parsed source gives to recognized integer settings.
IntegerSettings ==
    IF ~fs.exists THEN {}
    ELSE IF dialect = "defaults" THEN IntegerSettingsOfFile
    ELSE IF dialect = "script" THEN IntegerSettingsOfScript
    ELSE {}

BadIntegerLine(rawline) ==
    \E v \in IntegerSettingOfLine(rawline) : ~IsGroupedBase10Integer(v)

\* C3 as stated: a recognized integer setting whose value is not an optional
\* sign followed by digits makes the parse call end in an error with no
\* record, in both dialects, whatever precedes or follows it.
C3_BadIntegerIsHardFailure ==
    (\E v \in IntegerSettings : ~IsBase10Integer(v)) =>
        ret.raised /\ ret.value = None

\* C3: a recognized integer setting whose value is not a base-10 integer,
\* digits grouped by single underscores counting as one, makes the parse call
\* end in an error with no record, in both dialects, whatever precedes or
\* follows it.
C3_UnparsableIntegerIsHardFailure ==
    (\E v \in IntegerSettings : ~IsGroupedBase10Integer(v)) =>
        ret.raised /\ ret.value = None

\* A good line first, the bad setting second: the call still fails.
C3_Witness ==
    /\ fs.exists
    /\ call = "parse_file"
    /\ endswith(file_path, <<"spark-defaults.conf">>)
    /\ dialect = "defaults"
    /\ Len(readlines(fs.content)) = 2
    /\ ~BadIntegerLine(readlines(fs.content)[1])
    /\ DefaultsLine(SparkConfig(file_path), readlines(fs.content)[1])
           # Returned(SparkConfig(file_path))
    /\ BadIntegerLine(readlines(fs.content)[2])
    /\ ret.raised

\* The flag is followed by a token that is not all digits.
NonNumericFlagValue(s, flag) ==
    \E p \in 1..Len(s) :
        LET w == Span(s, p + 1, Whitespace)
            n == SpanNot(s, p + 1 + w, Whitespace)
        IN  /\ s[p] = flag
            /\ w >= 1 /\ n >= 1
            /\ \E i \in (p + 1 + w)..(p + w + n) : s[i] \notin Digits

\* C4: in the deploy-script dialect a non-numeric token after
\* --executor-cores or --num-executors makes the parse call fail.
C4_NonNumericCountIsParseError ==
    ( /\ fs.exists
      /\ dialect = "script"
      /\ \/ NonNumericFlagValue(full_command(fs.content), "--executor-cores")
         \/ NonNumericFlagValue(full_command(fs.content), "--num-executors") )
    => ret.raised

\* C6: an APP_NAME assignment, whatever it assigns, decides app_name and
\* --name does not overwrite it; --name is used only without an assignment;
\* the fields of the flag pass keep what that pass found.
C6_NameFlagOnlyWithoutAssignment ==
    (fs.exists /\ dialect = "script" /\ ~ret.raised) =>
        LET s == full_command(fs.content)
            assigned == SearchAppName(s, 1)
            Kept(f, found) == found # None => f = found
        IN  /\ assigned # None => Record.app_name = assigned
            /\ assigned = None => Record.app_name = SearchFlagToken(s, "--name", 1)
            /\ Kept(Record.master, SearchFlagToken(s, "--master", 1))
            /\ Kept(Record.deploy_mode, SearchFlagToken(s, "--deploy-mode", 1))
            /\ Kept(Record.driver_memory, SearchFlagToken(s, "--driver-memory", 1))
            /\ Kept(Record.executor_memory,
                    SearchFlagToken(s, "--executor-memory", 1))

\* C7: parse_file picks the dialect by the path's suffix first (settings
\* filename, then script extension), by the content's marker next, and falls
\* back to the key/value dialect; it returns what that sub-parser returns.
C7_DispatchPriority ==
    call = "parse_file" =>
        LET conf == endswith(file_path, <<"spark-defaults.conf">>)
            sh == endswith(file_path, <<".sh">>)
            marker == fs.exists /\ Contains(fs.content, "spark-submit")
        IN  /\ conf => dialect = "defaults"
            /\ (~conf /\ sh) => dialect = "script"
            /\ (~conf /\ ~sh /\ marker) => dialect = "script"
            /\ (~conf /\ ~sh /\ ~marker) => dialect = "defaults"
            /\ dialect = "defaults" => ret = parse_spark_defaults(file_path, fs)
            /\ dialect = "script" => ret = parse_spark_submit_script(file_path, fs)

\* The settings filename wins over a script marker in the content.
C7_Witness ==
    /\ call = "parse_file"
    /\ endswith(file_path, <<"spark-defaults.conf">>)
    /\ fs.exists
    /\ Contains(fs.content, "spark-submit")
    /\ dialect = "defaults"

---------------------------------------------------------------------------
(* Claims about the line-joining loop (specification SpecJoin) *)

\* The words of a text: its maximal runs of non-whitespace.
RECURSIVE Words(_)
Words(s) ==
    LET t == lstrip(s)
        n == SpanNot(t, 1, Whitespace)
    IN  IF t = <<>> THEN <<>>
        ELSE <<SubSeq(t, 1, n)>> \o Words(SubSeq(t, n + 1, Len(t)))

EndsInBackslash(l) == l # <<>> /\ l[Len(l)] = "\\"

\* The number of consecutive physical lines, from line i on, that end in a
\* backslash.
RECURSIVE ContinuedRun(_, _)
ContinuedRun(lines, i) ==
    IF i <= Len(lines) /\ EndsInBackslash(rstrip_nl(lines[i]))
    THEN 1 + ContinuedRun(lines, i + 1) ELSE 0

\* The logical lines as the claim describes them: each run of N lines that end
\* in a backslash, with the line after it, is one logical line made of the
\* N+1 pieces, the continuation characters removed, one space between pieces.
RECURSIVE ClaimedLogicalLines(_, _)
ClaimedLogicalLines(lines, i) ==
    IF i > Len(lines) THEN <<>>
    ELSE LET n == ContinuedRun(lines, i)
             last == IF i + n <= Len(lines) THEN i + n ELSE Len(lines)
             Piece(k) ==
                 LET l == rstrip_nl(lines[k])
                 IN  IF k < i + n /\ k < last + 1 /\ EndsInBackslash(l) /\ k # last
                     THEN strip(SubSeq(l, 1, Len(l) - 1))
                     ELSE strip(l)
         IN  <<SpaceJoin([k \in 1..(last - i + 1) |-> Piece(i + k - 1)])>>
                 \o ClaimedLogicalLines(lines, last + 1)

SameWords(ls1, ls2) ==
    /\ Len(ls1) = Len(ls2)
    /\ \A k \in 1..Len(ls1) : Words(ls1[k]) = Words(ls2[k])

\* A flag at the end of one physical line, its value at the start of the next.
FlagSplitAcrossJoin ==
    \E k \in 1..(Len(j_lines) - 1) :
        /\ rstrip_nl(j_lines[k]) = <<"--executor-cores", " ", "\\">>
        /\ rstrip_nl(j_lines[k + 1]) = <<" ", "4">>

LastLineIsNotContinued ==
    j_lines # <<>> /\ ~EndsInBackslash(rstrip_nl(j_lines[Len(j_lines)]))

\* C5: the loop rebuilds every run of N >= 1 physical lines that end in a
\* backslash, with the line that follows, into exactly one logical line
\* holding the N+1 pieces in order, and a flag split across the join is
\* extracted with its value.
C5_ContinuationRunsBecomeOneLine ==
    (j_pc = "done" /\ LastLineIsNotContinued) =>
        /\ SameWords(j_out, ClaimedLogicalLines(j_lines, 1))
        /\ FlagSplitAcrossJoin =>
               ApplyFlags(SparkConfig(file_path), SpaceJoin(j_out)).executor_cores
                   = Some(4)

---------------------------------------------------------------------------
(* Claims about the rule battery (specification SpecAnalyzer) *)

Titled(title) == SelectSeq(a_recs, LAMBDA r : r.title = <<title>>)

\* A memory size "<n><unit>", unit one of none, k, m, g, t in either case.
IsMemorySize(mem) ==
    LET s == lower(mem)
        n == Span(s, 1, Digits)
    IN  /\ n >= 1
        /\ \/ Len(s) = n
           \/ Len(s) = n + 1 /\ s[n + 1] \in {"k", "m", "g", "t"}

\* The size a memory string denotes is more than 10240 MB: n/1024 MB for k,
\* n MB for m and for no unit, n*1024 MB for g, n*1024*1024 MB for t.
DenotesMoreThanLimit(mem) ==
    LET s == lower(mem)
        n == Span(s, 1, Digits)
        v == DigitsValue(SubSeq(s, 1, n), 0)
        unit == IF Len(s) > n THEN s[n + 1] ELSE ""
    IN  CASE unit = "k" -> v > DriverMemoryLimitMB * 1024
          [] unit = "g" -> v * 1024 > DriverMemoryLimitMB
          [] unit = "t" -> v * 1024 * 1024 > DriverMemoryLimitMB
          [] OTHER -> v > DriverMemoryLimitMB

\* C8: the 'Excessive Driver Memory' recommendation is emitted exactly when
\* driver_memory is present and denotes more than 10240 MB, in every unit,
\* and then is critical, resource_allocation, recommends '2g-4g' and quotes
\* the driver_memory string.
C8_DriverMemoryRule ==
    ( /\ a_called
      /\ a_config.driver_memory # None => IsMemorySize(a_config.driver_memory[1]) )
    =>  LET recs == Titled("Excessive Driver Memory")
            over == /\ a_config.driver_memory # None
                    /\ DenotesMoreThanLimit(a_config.driver_memory[1])
        IN  /\ Len(recs) = IF over THEN 1 ELSE 0
            /\ over =>
                  /\ recs[1].severity = "critical"
                  /\ recs[1].category = <<"resource_allocation">>
                  /\ recs[1].recommended_value = Some(<<"2g-4g">>)
                  /\ recs[1].current_value = a_config.driver_memory

\* C9: the shuffle-partition recommendation is emitted if and only if
\* shuffle_partitions > 200, metrics are present and input_bytes is known and
\* below 10 GiB, for every non-negative input_bytes.
C9_ShufflePartitionRule ==
    a_called =>
        LET recs == Titled("Inefficient Shuffle Partitions")
            fires == /\ a_config.shuffle_partitions # None
                     /\ a_config.shuffle_partitions[1] > ShufflePartitionsLimit
                     /\ a_metrics # None
                     /\ a_metrics[1].input_bytes # None
                     /\ BytesLess(a_metrics[1].input_bytes[1],
                                  GiBytes(SmallDatasetGiB))
        IN  /\ Len(recs) = IF fires THEN 1 ELSE 0
            /\ fires =>
                  /\ recs[1].severity = "warning"
                  /\ recs[1].category = <<"performance_tuning">>
                  /\ recs[1].recommended_value = Some(<<"50-100">>)

\* C10: whatever the configuration and the metrics, Stage A holds exactly one
\* info / best_practices recommendation, titled 'Enable Dynamic Allocation',
\* when dynamic_allocation_enabled is false, and none when it is true.
C10_DynamicAllocationRule ==
    a_called =>
        LET info == SelectSeq(a_recs, LAMBDA r :
                        r.severity = "info" /\ r.category = <<"best_practices">>)
        IN  IF a_config.dynamic_allocation_enabled
            THEN Len(info) = 0
            ELSE Len(info) = 1 /\ info[1].title = <<"Enable Dynamic Allocation">>

\* The rule fires among others, with metrics present.
C10_Witness ==
    /\ a_called
    /\ ~a_config.dynamic_allocation_enabled
    /\ a_metrics # None
    /\ Len(a_recs) = 4
    /\ a_recs[3].title = <<"Enable Dynamic Allocation">>

---------------------------------------------------------------------------
(* Properties of the memory-spilling rule *)

\* max(executor_memory_used, 1), an absent or zero count taken as 1.
UsedOrOne(used) ==
    IF used = None \/ BytesIsZero(used[1]) THEN Bytes(0, 1) ELSE used[1]

\* 10 * spilled > max(used, 1), in exact integer arithmetic.
SpilledMoreThanTenth(metrics) ==
    /\ metrics.executor_memory_spilled # None
    /\ BigCmp(BigScale(Limbs(metrics.executor_memory_spilled[1]), 10, 0),
              Limbs(UsedOrOne(metrics.executor_memory_used))) = 1

\* C11: the 'High Memory Spilling' recommendation (warning,
\* performance_tuning) is emitted if and only if metrics are present and
\* 10 * spilled > max(used, 1), an absent or zero used counting as 1 and an
\* absent or zero spilled never firing.
C11_MemorySpillingRule ==
    a_called =>
        LET recs == Titled("High Memory Spilling")
            fires == a_metrics # None /\ SpilledMoreThanTenth(a_metrics[1])
        IN  /\ Len(recs) = IF fires THEN 1 ELSE 0
            /\ fires =>
                  /\ recs[1].severity = "warning"
                  /\ recs[1].category = <<"performance_tuning">>

---------------------------------------------------------------------------
(* Robustness of the rule battery *)

\* C12: the rule battery never raises, whatever optional fields of the
\* configuration and of the metrics are absent or zero and whatever text
\* driver_memory holds, and a rule whose input is absent emits nothing.
C12_RuleBatteryNeverRaises ==
    a_called =>
        /\ ~a_raised
        /\ a_config.driver_memory = None =>
               Titled("Excessive Driver Memory") = <<>>
        /\ ( \/ a_config.shuffle_partitions = None
             \/ a_metrics = None
             \/ a_metrics[1].input_bytes = None ) =>
               Titled("Inefficient Shuffle Partitions") = <<>>
        /\ ( \/ a_metrics = None
             \/ a_metrics[1].executor_memory_spilled = None ) =>
               Titled("High Memory Spilling") = <<>>

\* Every optional input is absent except a driver_memory that is no memory
\* size; the call returns the one recommendation that needs no input.
C12_Witness ==
    /\ a_called
    /\ ~a_raised
    /\ a_config.driver_memory = Some(<<"x">>)
    /\ a_config.executor_memory = None
    /\ a_config.shuffle_partitions = None
    /\ ~a_config.dynamic_allocation_enabled
    /\ a_metrics = Some(ExecutionMetrics(None, None, None))
    /\ Len(a_recs) = 1

---------------------------------------------------------------------------
(* config_analyzer.py: the parser of the generative response (Stage B) *)

\* In a response, "[", "]", "|", ":", "#", "**", the blank and the newline
\* are lexemes of their own, and so is every word.

\* The lexemes whose upper-cased spelling contains the keyword.
KeywordLexemes(kw) ==
    CASE kw = "SUMMARY" -> {"SUMMARY", "Summary"}
      [] kw = "CRITICAL" -> {"CRITICAL"}
      [] kw = "WARNING" -> {"WARNING"}
      [] kw = "INFO" -> {"INFO", "info", "information"}
      [] kw = "SUGGESTION" -> {"Suggestion"}

\* kw in line.upper()
InUpper(kw, line) == \E i \in 1..Len(line) : line[i] \in KeywordLexemes(kw)

\* str.startswith(prefix)
startswith(s, prefix) ==
    Len(s) >= Len(prefix) /\ SubSeq(s, 1, Len(prefix)) = prefix

RECURSIVE split(_, _)
\* str.split(sep), sep one lexeme.
split(s, sep) ==
    LET n == SpanNot(s, 1, {sep})
    IN  IF n = Len(s) THEN <<s>>
        ELSE <<SubSeq(s, 1, n)>> \o split(SubSeq(s, n + 2, Len(s)), sep)

\* str.split(sep, 1)
split1(s, sep) ==
    LET n == SpanNot(s, 1, {sep})
    IN  IF n = Len(s) THEN <<s>>
        ELSE <<SubSeq(s, 1, n), SubSeq(s, n + 2, Len(s))>>

RECURSIVE replace(_, _, _)
\* str.replace(old, new)
replace(s, old, new) ==
    IF Len(s) < Len(old) THEN s
    ELSE IF SubSeq(s, 1, Len(old)) = old
         THEN new \o replace(SubSeq(s, Len(old) + 1, Len(s)), old, new)
         ELSE <<Head(s)>> \o replace(Tail(s), old, new)

\* Lines 124-125: whether the (stripped) line is taken as the summary.
SummaryTaken(summary, line) ==
    /\ \/ InUpper("SUMMARY", line)
       \/ /\ summary = <<>>
          /\ line # <<>>
          /\ ~startswith(line, <<"[">>)
          /\ ~startswith(line, <<"#">>)
    /\ summary = <<>>
    /\ line # <<>>
    /\ \A kw \in {"CRITICAL", "WARNING", "INFO", "SUGGESTION"} : ~InUpper(kw, line)

\* Line 126.
SummaryOf(line) ==
    strip(replace(replace(line, <<"**", "SUMMARY", "**", ":">>, <<>>),
                  <<"SUMMARY", ":">>, <<>>))

\* Lines 130-137: the severity a line's tag names, None for any other line.
SeverityOfLine(line) ==
    IF startswith(line, <<"[", "CRITICAL", "]">>) THEN Some("critical")
    ELSE IF startswith(line, <<"[", "WARNING", "]">>) THEN Some("warning")
    ELSE IF startswith(line, <<"[", "INFO", "]">>) THEN Some("info")
    ELSE None

\* The prefix test written without the colon.
SegmentKey_without_colon(part) ==
    IF startswith(lower(part), <<"current">>) THEN "current_value"
    ELSE IF startswith(lower(part), <<"recommended">>) THEN "recommended_value"
    ELSE IF startswith(lower(part), <<"impact">>) THEN "impact"
    ELSE "none"

\* Lines 151-155: the field a segment is for.
SegmentKey(part) ==
    IF startswith(lower(part), <<"current", ":">>) THEN "current_value"
    ELSE IF startswith(lower(part), <<"recommended", ":">>) THEN "recommended_value"
    ELSE IF startswith(lower(part), <<"impact", ":">>) THEN "impact"
    ELSE "none"

NoFields ==
    [current_value |-> None, recommended_value |-> None, impact |-> None,
     raised |-> FALSE]

RECURSIVE ScanSegments_keeps_first(_, _)
\* The scan with a field set only while it is still None.
ScanSegments_keeps_first(parts, fields) ==
    IF parts = <<>> THEN fields
    ELSE LET part == strip(Head(parts))
             key == SegmentKey(part)
             sp == split1(part, ":")
         IN  IF key = "none" THEN ScanSegments_keeps_first(Tail(parts), fields)
             ELSE IF Len(sp) < 2 THEN [fields EXCEPT !.raised = TRUE]
             ELSE IF fields[key] # None
                  THEN ScanSegments_keeps_first(Tail(parts), fields)
             ELSE ScanSegments_keeps_first(Tail(parts),
                               [fields EXCEPT ![key] = Some(strip(sp[2]))])

RECURSIVE ScanSegments(_, _)
\* Lines 149-156; part.split(':', 1)[1] raises IndexError without a colon.
ScanSegments(parts, fields) ==
    IF parts = <<>> THEN fields
    ELSE LET part == strip(Head(parts))
             key == SegmentKey(part)
             sp == split1(part, ":")
         IN  IF key = "none" THEN ScanSegments(Tail(parts), fields)
             ELSE IF Len(sp) < 2 THEN [fields EXCEPT !.raised = TRUE]
             ELSE ScanSegments(Tail(parts),
                               [fields EXCEPT ![key] = Some(strip(sp[2]))])

\* Lines 140-166 for a line with a severity tag: [raised, rec], rec None
\* when the line has fewer than two segments.
ParseTaggedLine(line, severity) ==
    LET parts == split(line, "|")
        category_part ==
            IF Contains(parts[1], "]") THEN strip(split1(parts[1], "]")[2])
            ELSE <<"general">>
        title == strip(parts[2])
        fields == ScanSegments(SubSeq(parts, 3, Len(parts)), NoFields)
    IN  IF Len(parts) < 2 THEN [raised |-> FALSE, rec |-> None]
        ELSE IF fields.raised THEN [raised |-> TRUE, rec |-> None]
        ELSE [raised |-> FALSE,
              rec |-> Some(Recommendation(severity,
                        replace(lower(category_part), <<" ">>, <<"_">>),
                        title,
                        title \o <<".", " ">>
                              \o (IF TruthyStr(fields.impact) THEN fields.impact[1]
                                  ELSE <<>>),
                        fields.current_value, fields.recommended_value,
                        fields.impact))]

\* One iteration of the loop of lines 120-166 on the state [raised, summary, recs].
ParseResponseLine(st, rawline) ==
    LET line == strip(rawline)
        severity == SeverityOfLine(line)
        tagged == ParseTaggedLine(line, severity[1])
    IN  IF st.raised THEN st
        ELSE IF SummaryTaken(st.summary, line)
             THEN [st EXCEPT !.summary = SummaryOf(line)]
        ELSE IF severity = None THEN st
        ELSE IF tagged.raised THEN [st EXCEPT !.raised = TRUE]
        ELSE IF tagged.rec = None THEN st
        ELSE [st EXCEPT !.recs = Append(@, tagged.rec[1])]

RECURSIVE ParseResponseLines(_, _)
ParseResponseLines(st, lines) ==
    IF lines = <<>> THEN st
    ELSE ParseResponseLines(ParseResponseLine(st, Head(lines)), Tail(lines))

DefaultSummary == <<"Configuration analyzed. See recommendations below.">>

\* ConfigAnalyzer._parse_openai_response: [raised, summary, recs].
_parse_openai_response(response_text) ==
    LET st == ParseResponseLines([raised |-> FALSE, summary |-> <<>>, recs |-> <<>>],
                                 split(response_text, "\n"))
    IN  IF st.raised THEN [raised |-> TRUE, summary |-> <<>>, recs |-> <<>>]
        ELSE IF st.summary = <<>> THEN [st EXCEPT !.summary = DefaultSummary]
        ELSE st

---------------------------------------------------------------------------
(* The inputs of the response parser, and the parser as a state machine *)

MaxRespLines == 3
MaxSegments == 2

\* Lines of a response: blank lines, summary lines of several shapes, a
\* heading, lines with a severity tag and lines with none.
ResponseLines ==
    { <<>>,
      <<" ">>,
      <<"Looks", " ", "good">>,
      <<"SUMMARY", ":", " ", "Looks", " ", "good">>,
      <<"**", "SUMMARY", "**", ":", " ", "Looks">>,
      <<"Looks", " ", "SUMMARY", ":", " ", "good">>,
      <<"#", " ", "Looks">>,
      <<"More", " ", "information">>,
      <<"[", "SUMMARY", "]", " ", "Looks">>,
      <<"[", "INFO", "]", " ", "Memory", " ", "Use", " ", "|", " ", "Fix", " ">>,
      <<" ", "[", "INFO", "]", "reliability", "|", "Fix">>,
      <<"[", "WARNING", "]", " ", "reliability", " ", "|", " ", "GC", " ", "|",
        " ", "Current", ":", " ", "5", "0", "0", " ", "|",
        " ", "Recommended", ":", " ", "1", "0", "0", " ", "|",
        " ", "Impact", ":", " ", "faster">>,
      <<"[", "CRITICAL", "]", "|", "Fix">>,
      <<"[", "CRITICAL", "]", " ", "reliability">>,
      <<"[", "NOTE", "]", " ", "reliability", "|", "Fix">>,
      <<"[", "info", "]", "reliability", "|", "Fix">>,
      <<"reliability", "|", "Fix">> }

\* What may follow the title of a line with a severity tag.
ResponseSegments ==
    { <<>>,
      <<" ", "Current", ":", " ", "5", "0", "0", " ">>,
      <<"current", ":", "5">>,
      <<"Recommended", ":", " ", "1", "0", "0">>,
      <<"IMPACT", ":", "faster">>,
      <<" ", "Impact", ":", " ", "faster", ":", "5", " ">>,
      <<"Impact", ":">>,
      <<"Current", " ", ":", "5">>,
      <<"Current">>,
      <<"faster", ":", "5">> }

TaggedHeads ==
    { <<"[", "WARNING", "]", " ", "reliability", " ", "|", " ", "GC", " ">>,
      <<"[", "INFO", "]", "|">> }

RECURSIVE JoinWith(_, _)
\* sep.join(parts)
JoinWith(parts, sep) ==
    IF parts = <<>> THEN <<>>
    ELSE IF Len(parts) = 1 THEN parts[1]
    ELSE parts[1] \o sep \o JoinWith(Tail(parts), sep)

ResponseTexts ==
    { JoinWith(ls, <<"\n">>) : ls \in SeqsUpTo(ResponseLines, MaxRespLines) }
    \cup { JoinWith(<<h>> \o segs, <<"|">>) :
              h \in TaggedHeads, segs \in SeqsUpTo(ResponseSegments, MaxSegments) }

ParserUnused ==
    /\ file_path = <<>>
    /\ fs = Missing
    /\ ParserIdle

InitResponse ==
    /\ ParserUnused
    /\ AnalyzerUnused
    /\ JoinUnused
    /\ r_text \in ResponseTexts
    /\ r_called = FALSE
    /\ r_ret = [raised |-> FALSE, summary |-> <<>>, recs |-> <<>>]
    /\ AnalyzeUnused
    /\ HistoryUnused
    /\ MemoryUnused
    /\ TwiceUnused
    /\ DirUnused
    /\ ServerUnused

ParseOpenAIResponse ==
    /\ r_called' = TRUE
    /\ r_ret' = _parse_openai_response(r_text)
    /\ UNCHANGED r_text
    /\ UNCHANGED <<parser_vars, analyzer_vars, join_vars, analyze_vars, history_vars, memory_vars, twice_vars, dir_vars, server_vars>>

NextResponse == ParseOpenAIResponse

SpecResponse == InitResponse /\ [][NextResponse]_vars

---------------------------------------------------------------------------
(* config_analyzer.py: analyze, Stage A then Stage B, step by step *)

MaxReplyLines == 2

\* What the completion call of lines 197-204 may do: raise ("error"), return
\* no choice ("empty"), return a message without content ("null"), or return
\* a text.
Reply(kind, content) == [kind |-> kind, content |-> content]

ReplyLines ==
    { <<>>,
      <<"Looks", " ", "good">>,
      <<"SUMMARY", ":", " ", "Looks", " ", "good">>,
      <<"More", " ", "information">>,
      <<"[", "INFO", "]", " ", "Memory", " ", "Use", " ", "|", " ", "Fix", " ">>,
      <<"[", "CRITICAL", "]", "|", "Fix">>,
      <<"[", "WARNING", "]", " ", "reliability", " ", "|", " ", "GC", " ", "|",
        " ", "Impact", ":", " ", "faster">>,
      <<"[", "CRITICAL", "]", " ", "reliability">>,
      <<"[", "NOTE", "]", " ", "reliability", "|", "Fix">> }

Replies ==
    { Reply("error", <<>>), Reply("empty", <<>>), Reply("null", <<>>) }
    \cup { Reply("text", JoinWith(ls, <<"\n">>)) :
              ls \in SeqsUpTo(ReplyLines, MaxReplyLines) }

AnalyzeConfigs ==
    { [SparkConfig(<<"conf/", "spark-defaults.conf">>) EXCEPT
          !.driver_memory = dm, !.shuffle_partitions = sp,
          !.dynamic_allocation_enabled = da] :
        dm \in {None, Some(<<"2", "0", "g">>)}, sp \in {None, Some(500)},
        da \in BOOLEAN }

AnalyzeMetrics ==
    { None,
      Some(ExecutionMetrics(Some(GiBytes(5)), Some(GiBytes(40)), Some(GiBytes(5)))),
      Some(ExecutionMetrics(Some(GiBytes(50)), None, None)) }

FallbackNoClient ==
    <<"Configuration analyzed using rule-based system. Set OPENAI_API_KEY for AI-powered insights.">>

FallbackFailed == <<"Configuration analyzed using rule-based system.">>

InitAnalyze ==
    /\ ParserUnused
    /\ JoinUnused
    /\ ResponseUnused
    /\ a_config \in AnalyzeConfigs
    /\ a_metrics \in AnalyzeMetrics
    /\ AnalyzerIdle
    /\ z_client \in BOOLEAN
    /\ z_reply \in Replies
    /\ z_pc = "start"
    /\ z_recs = <<>>
    /\ z_summary = <<>>
    /\ z_raised = FALSE
    /\ HistoryUnused
    /\ MemoryUnused
    /\ TwiceUnused
    /\ DirUnused
    /\ ServerUnused

analyze_others == <<parser_vars, analyzer_vars, join_vars, response_vars, history_vars, memory_vars, twice_vars, dir_vars, server_vars>>

\* Lines 184-191: the result is created and Stage A's findings appended.
AnalyzeStageA ==
    /\ z_pc = "start"
    /\ IF _rule_based_analysis_raises(a_config, a_metrics)
       THEN /\ z_raised' = TRUE
            /\ z_pc' = "done"
            /\ UNCHANGED z_recs
       ELSE /\ z_recs' = z_recs \o _rule_based_analysis(a_config, a_metrics)
            /\ z_pc' = "client"
            /\ UNCHANGED z_raised
    /\ UNCHANGED <<z_client, z_reply, z_summary>>
    /\ UNCHANGED analyze_others

\* The else branch of line 210 with the summary of the failure branch.
AnalyzeNoClient_failure_summary ==
    /\ z_pc = "client"
    /\ ~z_client
    /\ z_summary' = FallbackFailed
    /\ z_pc' = "done"
    /\ UNCHANGED <<z_client, z_reply, z_recs, z_raised>>
    /\ UNCHANGED analyze_others

\* Lines 194, 210-211: no client.
AnalyzeNoClient ==
    /\ z_pc = "client"
    /\ ~z_client
    /\ z_summary' = FallbackNoClient
    /\ z_pc' = "done"
    /\ UNCHANGED <<z_client, z_reply, z_recs, z_raised>>
    /\ UNCHANGED analyze_others

\* Lines 194-203, 207-209: the completion call raises.
AnalyzeCallFails ==
    /\ z_pc = "client"
    /\ z_client
    /\ z_reply.kind = "error"
    /\ z_summary' = FallbackFailed
    /\ z_pc' = "done"
    /\ UNCHANGED <<z_client, z_reply, z_recs, z_raised>>
    /\ UNCHANGED analyze_others

\* Lines 194-203: the completion call returns.
AnalyzeCallReturns ==
    /\ z_pc = "client"
    /\ z_client
    /\ z_reply.kind # "error"
    /\ z_pc' = "parse"
    /\ UNCHANGED <<z_client, z_reply, z_recs, z_summary, z_raised>>
    /\ UNCHANGED analyze_others

\* Line 204: response.choices[0] raises IndexError without a choice, and
\* None.split raises AttributeError without a content.
ParseReplyRaises ==
    \/ z_reply.kind \in {"empty", "null"}
    \/ _parse_openai_response(z_reply.content).raised

\* The exception of line 204 left uncaught.
AnalyzeParseFails_propagates ==
    /\ z_pc = "parse"
    /\ ParseReplyRaises
    /\ z_raised' = TRUE
    /\ z_pc' = "done"
    /\ UNCHANGED <<z_client, z_reply, z_recs, z_summary>>
    /\ UNCHANGED analyze_others

\* Lines 204, 207-209: reading or parsing the response raises.
AnalyzeParseFails ==
    /\ z_pc = "parse"
    /\ ParseReplyRaises
    /\ z_summary' = FallbackFailed
    /\ z_pc' = "done"
    /\ UNCHANGED <<z_client, z_reply, z_recs, z_raised>>
    /\ UNCHANGED analyze_others

\* Stage B's findings put in front of Stage A's.
AnalyzeParseSucceeds_prepends ==
    /\ z_pc = "parse"
    /\ ~ParseReplyRaises
    /\ z_summary' = _parse_openai_response(z_reply.content).summary
    /\ z_recs' = _parse_openai_response(z_reply.content).recs \o z_recs
    /\ z_pc' = "done"
    /\ UNCHANGED <<z_client, z_reply, z_raised>>
    /\ UNCHANGED analyze_others

\* Lines 204-206: the response is parsed and Stage B's findings appended.
AnalyzeParseSucceeds ==
    /\ z_pc = "parse"
    /\ ~ParseReplyRaises
    /\ z_summary' = _parse_openai_response(z_reply.content).summary
    /\ z_recs' = z_recs \o _parse_openai_response(z_reply.content).recs
    /\ z_pc' = "done"
    /\ UNCHANGED <<z_client, z_reply, z_raised>>
    /\ UNCHANGED analyze_others

NextAnalyze ==
    \/ AnalyzeStageA
    \/ AnalyzeNoClient
    \/ AnalyzeCallFails
    \/ AnalyzeCallReturns
    \/ AnalyzeParseFails
    \/ AnalyzeParseSucceeds

SpecAnalyze == InitAnalyze /\ [][NextAnalyze]_vars

---------------------------------------------------------------------------
(* Properties of analyze *)

\* The place of a Stage A rule in the fixed order, by the title it emits;
\* 0 for any other title.
RuleRank(title) ==
    CASE title = <<"Excessive Driver Memory">> -> 1
      [] title = <<"Inefficient Shuffle Partitions">> -> 2
      [] title = <<"Enable Dynamic Allocation">> -> 3
      [] title = <<"High Memory Spilling">> -> 4
      [] OTHER -> 0

\* The trimmed lines of the reply that carry one of the three severity tags
\* and a '|', in the order they appear.
TaggedReplyLines ==
    LET lines == split(z_reply.content, "\n")
        trimmed == [i \in 1..Len(lines) |-> strip(lines[i])]
    IN  SelectSeq(trimmed, LAMBDA l :
            /\ Len(l) >= 3
            /\ l[1] = "[" /\ l[2] \in {"CRITICAL", "WARNING", "INFO"} /\ l[3] = "]"
            /\ Contains(l, "|"))

TagSeverity(tag) ==
    CASE tag = "CRITICAL" -> "critical"
      [] tag = "WARNING" -> "warning"
      [] tag = "INFO" -> "info"

\* Stage B ran to its end: a client is set and the reply is a text.
StageBRan == z_client /\ z_reply.kind = "text"

\* C13: the recommendations of a returned result are Stage A's findings, at
\* most one per rule and in the order driver memory, shuffle partitions,
\* dynamic allocation, memory spilling, followed by Stage B's findings in the
\* order of their lines; every severity is critical, warning or info.
C13_StageAThenStageBInOrder ==
    (z_pc = "done" /\ ~z_raised) =>
        LET b == IF StageBRan THEN TaggedReplyLines ELSE <<>>
            k == Len(z_recs) - Len(b)
        IN  /\ k >= 0
            /\ \A i \in 1..k : RuleRank(z_recs[i].title) >= 1
            /\ \A i \in 1..(k - 1) :
                   RuleRank(z_recs[i].title) < RuleRank(z_recs[i + 1].title)
            /\ \A i \in 1..Len(b) :
                   /\ z_recs[k + i].severity = TagSeverity(b[i][2])
                   /\ z_recs[k + i].title = strip(split(b[i], "|")[2])
            /\ \A i \in 1..Len(z_recs) :
                   z_recs[i].severity \in {"critical", "warning", "info"}

\* All four rules fire and the reply holds two tagged lines of different
\* severity, the less severe first.
C13_Witness ==
    /\ z_pc = "done"
    /\ ~z_raised
    /\ StageBRan
    /\ Len(z_recs) = 6
    /\ RuleRank(z_recs[4].title) = 4
    /\ z_recs[5].severity = "info"
    /\ z_recs[6].severity = "critical"

\* Stage B did not run to its end: no client, or the call or the reading of
\* its response failed.
StageBFailed == ~z_client \/ z_reply.kind # "text"

\* The recommendations that are not findings of a Stage A rule.
StageBPart == SelectSeq(z_recs, LAMBDA r : RuleRank(r.title) = 0)

\* C14: when the generative capability is not configured, or its call or the
\* parsing of its response fails, analyze returns without raising and the
\* result holds exactly Stage A's findings: once Stage A has run nothing is
\* added; and at every step Stage B has contributed all of its findings or
\* none.
C14_StageBFailureKeepsStageA ==
    /\ []( (z_pc = "done" /\ StageBFailed) =>
               (~z_raised /\ StageBPart = <<>>) )
    /\ [][ (z_pc \in {"client", "parse"} /\ StageBFailed) => z_recs' = z_recs ]_vars
    /\ []( z_pc # "idle" =>
               Len(StageBPart) \in {0, Len(TaggedReplyLines)} )

\* The completion returned a message without content after Stage A found
\* something: the call ended with Stage A's findings and the failure summary.
C14_Witness ==
    /\ z_pc = "done"
    /\ z_client
    /\ z_reply.kind = "null"
    /\ ~z_raised
    /\ Len(z_recs) = 4
    /\ z_summary = FallbackFailed

\* C15: the summary of a returned result is Stage B's parsed summary when
\* Stage B ran to its end, and otherwise one fixed fallback string, the same
\* (here the one of the failure branch, line 209) whether there was no client
\* or the client failed.
C15_SummaryIsParsedOrOneFallback ==
    (z_pc = "done" /\ ~z_raised) =>
        z_summary = IF StageBRan
                       THEN _parse_openai_response(z_reply.content).summary
                       ELSE FallbackFailed

\* C15, amended: the summary of a returned result is Stage B's parsed summary
\* when Stage B ran to its end; otherwise it is one of two fixed strings, the
\* rule-based message when the client failed and the rule-based message with
\* the hint to set OPENAI_API_KEY when there is no client.
C15_SummaryIsParsedOrFallbackOfItsCause ==
    (z_pc = "done" /\ ~z_raised) =>
        /\ StageBRan =>
               z_summary = _parse_openai_response(z_reply.content).summary
        /\ (z_client /\ ~StageBRan) =>
               z_summary = <<"Configuration analyzed using rule-based system.">>
        /\ ~z_client =>
               z_summary = <<"Configuration analyzed using rule-based system. Set OPENAI_API_KEY for AI-powered insights.">>

\* A call without a client has returned with the hint in its summary.
C15_Witness ==
    /\ z_pc = "done"
    /\ ~z_client
    /\ ~z_raised
    /\ z_recs # <<>>
    /\ z_summary = FallbackNoClient
    /\ z_summary # FallbackFailed

---------------------------------------------------------------------------
(* Properties of the response parser *)

\* The lines of a response, each stripped as line 121 does.
StrippedLines(text) ==
    LET ls == split(text, "\n") IN [i \in 1..Len(ls) |-> strip(ls[i])]

\* The number of lines before the first one that begins with a recognized
\* severity tag (all of them when there is none).
LinesBeforeFirstTag(ls) ==
    LET tagged == { i \in 1..Len(ls) : SeverityOfLine(ls[i]) # None }
    IN  IF tagged = {} THEN Len(ls)
        ELSE (CHOOSE i \in tagged : \A j \in tagged : i <= j) - 1

\* A line with a literal "SUMMARY:" prefix stripped.
WithoutSummaryPrefix(line) ==
    IF startswith(line, <<"SUMMARY", ":">>)
    THEN strip(SubSeq(line, 3, Len(line)))
    ELSE line

\* The summary as C16 states it: the first non-empty line that does not start
\* with a bracket among the lines before the first severity-tag line; the
\* parser's default when there is no such line.
StatedSummary(text) ==
    LET ls == StrippedLines(text)
        cand == { i \in 1..LinesBeforeFirstTag(ls) :
                    ls[i] # <<>> /\ ~startswith(ls[i], <<"[">>) }
    IN  IF cand = {} THEN DefaultSummary
        ELSE WithoutSummaryPrefix(ls[CHOOSE i \in cand : \A j \in cand : i <= j])

\* C16: the parser takes as summary the first non-empty line that does not
\* start with a bracket and occurs before any line beginning with [CRITICAL],
\* [WARNING] or [INFO], with a literal 'SUMMARY:' prefix stripped, whatever
\* words the line contains; no line after the first severity-tag line is ever
\* taken as the summary.
C16_SummaryIsFirstPlainLineBeforeTags ==
    (r_called /\ ~r_ret.raised) => r_ret.summary = StatedSummary(r_text)

\* The lines of a response that begin with a recognized severity tag and have
\* at least two '|'-separated segments, in order, each stripped.
RecommendationLines(text) ==
    SelectSeq(StrippedLines(text),
              LAMBDA l : SeverityOfLine(l) # None /\ Len(split(l, "|")) >= 2)

\* The category as C17 states it: the text of segment 0 after the closing
\* bracket, trimmed, lower-cased, blanks replaced by underscores; "general"
\* when that text is empty.
StatedCategory(line) ==
    LET seg0 == split(line, "|")[1]
        text == strip(SubSeq(seg0, 4, Len(seg0)))
    IN  IF text = <<>> THEN <<"general">>
        ELSE replace(lower(text), <<" ">>, <<"_">>)

\* C17: for every response line that begins with one of the three severity
\* tags and has at least two segments, the recommendation's category is
\* segment 0 after the closing bracket, trimmed, lower-cased, blanks replaced
\* by underscores, and 'general' when that text is empty; its title is
\* segment 1 trimmed; its severity is the one the tag names.
C17_CategoryTitleSeverityOfTaggedLine ==
    (r_called /\ ~r_ret.raised) =>
        LET ls == RecommendationLines(r_text)
        IN  /\ Len(r_ret.recs) = Len(ls)
            /\ \A i \in 1..Len(ls) :
                  /\ r_ret.recs[i].category = StatedCategory(ls[i])
                  /\ r_ret.recs[i].title = strip(split(ls[i], "|")[2])
                  /\ r_ret.recs[i].severity = TagSeverity(ls[i][2])

\* The segments of a line after its title, each trimmed.
SegmentsAfterTitle(line) ==
    LET parts == split(line, "|")
    IN  [k \in 1..(Len(parts) - 2) |-> strip(parts[k + 2])]

\* The value of a field as C18 states it: absent when no segment starts (in
\* any letter case) with the prefix and a colon, else the trimmed text after
\* the first colon of the last such segment.
StatedField(line, prefix) ==
    LET segs == SegmentsAfterTitle(line)
        matching == { k \in 1..Len(segs) :
                        /\ Len(segs[k]) >= 2
                        /\ lower(<<segs[k][1]>>) = <<prefix>>
                        /\ segs[k][2] = ":" }
        last == CHOOSE k \in matching : \A j \in matching : j <= k
    IN  IF matching = {} THEN None
        ELSE Some(strip(SubSeq(segs[last], 3, Len(segs[last]))))

\* C18: on a line with a severity tag, each segment after the title whose
\* trimmed text starts, in any letter case, with 'current:', 'recommended:' or
\* 'impact:' sets current_value, recommended_value or expected_impact to the
\* trimmed text after the first colon; other segments change nothing, a field
\* without a matching segment stays absent, and the segments may come in any
\* order or number.
C18_SegmentsSetTheirFields ==
    (r_called /\ ~r_ret.raised) =>
        LET ls == RecommendationLines(r_text)
        IN  /\ Len(r_ret.recs) = Len(ls)
            /\ \A i \in 1..Len(ls) :
                  /\ r_ret.recs[i].current_value = StatedField(ls[i], "current")
                  /\ r_ret.recs[i].recommended_value = StatedField(ls[i], "recommended")
                  /\ r_ret.recs[i].expected_impact = StatedField(ls[i], "impact")

\* A line whose impact segment comes before its current segment and has a
\* second colon has been parsed: both fields are set, recommended_value is
\* absent.
C18_Witness ==
    /\ r_called
    /\ Len(r_ret.recs) = 1
    /\ Len(SegmentsAfterTitle(RecommendationLines(r_text)[1])) = 2
    /\ SegmentKey(SegmentsAfterTitle(RecommendationLines(r_text)[1])[1]) = "impact"
    /\ r_ret.recs[1].current_value = Some(<<"5">>)
    /\ r_ret.recs[1].recommended_value = None
    /\ r_ret.recs[1].expected_impact = Some(<<"faster", ":", "5">>)

\* C19: for every response text the parser returns without raising, and it
\* yields exactly one recommendation per line that begins with [CRITICAL],
\* [WARNING] or [INFO] and has at least two '|'-separated segments, in line
\* order; every other line (no tag, unknown tag, fewer than two segments)
\* yields none and does not stop the scan of the later lines.
C19_OneRecommendationPerWellFormedLine ==
    r_called =>
        LET ls == RecommendationLines(r_text)
        IN  /\ ~r_ret.raised
            /\ Len(r_ret.recs) = Len(ls)
            /\ \A i \in 1..Len(ls) :
                  /\ SeverityOfLine(ls[i]) = Some(r_ret.recs[i].severity)
                  /\ startswith(strip(split(ls[i], "|")[2]), r_ret.recs[i].title)
                  /\ Len(r_ret.recs[i].title) = Len(strip(split(ls[i], "|")[2]))

\* A response of three lines has been parsed: an unknown tag, a tagged line
\* of one segment, then a well-formed line, which gave the only
\* recommendation.
C19_Witness ==
    /\ r_called
    /\ ~r_ret.raised
    /\ Len(StrippedLines(r_text)) = 3
    /\ startswith(StrippedLines(r_text)[1], <<"[", "NOTE", "]">>)
    /\ StrippedLines(r_text)[2] = <<"[", "CRITICAL", "]", " ", "reliability">>
    /\ SeverityOfLine(StrippedLines(r_text)[3]) = Some("warning")
    /\ Len(r_ret.recs) = 1
    /\ r_ret.recs[1].severity = "warning"

---------------------------------------------------------------------------
(* history_server_client.py: the metrics fetch *)

\* HistoryServerClient.__init__, line 20: self.use_mock.
use_mock(arg, env) ==
    arg \/ lower(IF env = None THEN <<"true">> ELSE env[1]) = <<"true">>

\* One stage of an application payload; None is an absent key.
Stage(status, numTasks, numFailedTasks, shuffleReadBytes, shuffleWriteBytes, inputBytes, outputBytes) ==
    [ status |-> status, numTasks |-> numTasks, numFailedTasks |-> numFailedTasks,
      shuffleReadBytes |-> shuffleReadBytes, shuffleWriteBytes |-> shuffleWriteBytes,
      inputBytes |-> inputBytes, outputBytes |-> outputBytes ]

\* The 'executorSummary' dict of a payload: the two keys _parse_metrics
\* reads (None is an absent key) and whether the dict holds any other key.
ExecutorSummary(memoryUsed, diskUsed, others) ==
    [memoryUsed |-> memoryUsed, diskUsed |-> diskUsed, others |-> others]

\* `if executor_summary:` on app_data.get('executorSummary', {}): a dict is
\* true when it holds a key, whichever it is.
TruthySummary(summary) ==
    /\ summary # None
    /\ \/ summary[1].memoryUsed # None
       \/ summary[1].diskUsed # None
       \/ summary[1].others

\* An application payload: the keys _parse_metrics and _get_mock_metrics
\* read; None is an absent key, attempts and stages are lists (empty when
\* absent), attempts holds each attempt's 'duration'.
AppData(id, name, attempts, executorSummary, stages) ==
    [ id |-> id, name |-> name, attempts |-> attempts,
      executorSummary |-> executorSummary, stages |-> stages ]

\* models.py, ExecutionMetrics(app_id, app_name) with every default.
NewExecutionMetrics(app_id, app_name) ==
    [ app_id |-> app_id, app_name |-> app_name, duration_ms |-> None,
      total_tasks |-> 0, failed_tasks |-> 0, total_stages |-> 0,
      failed_stages |-> 0,
      executor_memory_used |-> None, executor_memory_spilled |-> None,
      shuffle_read_bytes |-> None, shuffle_write_bytes |-> None,
      input_bytes |-> None, output_bytes |-> None,
      peak_memory_usage |-> None, gc_time_ms |-> None,
      raw_metrics |-> <<>> ]

\* dict.get(key, default) on an optional value.
GetOr(o, default) == IF o = None THEN default ELSE o[1]

\* a + b on byte counts.
BytesPlus(a, b) ==
    LET lo == a.lo + b.lo
        hi == a.hi + b.hi + (lo \div Limb)
    IN  BigBytes(a.top + b.top + (hi \div (2 ^ 30)), hi % (2 ^ 30), lo % Limb)

\* The accumulation without the `or 0`: a total of 0 is started again.
Accumulate_restarts(total, value) ==
    IF value = None THEN total
    ELSE Some(IF TruthyBytes(total) THEN BytesPlus(total[1], value[1]) ELSE Bytes(0, 0))

\* (total or 0) + stage[key], when the stage has the key (lines 96-103).
Accumulate(total, value) ==
    IF value = None THEN total
    ELSE Some(BytesPlus(IF TruthyBytes(total) THEN total[1] ELSE Bytes(0, 0),
                        value[1]))

RECURSIVE AggregateStages_assigns(_, _)
\* The loop with `=` in place of `+=` for the task counts.
AggregateStages_assigns(metrics, stages) ==
    IF stages = <<>> THEN metrics
    ELSE LET stage == Head(stages)
         IN  AggregateStages_assigns(
                 [metrics EXCEPT
                    !.total_tasks = GetOr(stage.numTasks, 0),
                    !.failed_tasks = GetOr(stage.numFailedTasks, 0),
                    !.shuffle_read_bytes = Accumulate(@, stage.shuffleReadBytes),
                    !.shuffle_write_bytes = Accumulate(@, stage.shuffleWriteBytes),
                    !.input_bytes = Accumulate(@, stage.inputBytes),
                    !.output_bytes = Accumulate(@, stage.outputBytes)],
                 Tail(stages))

RECURSIVE AggregateStages(_, _)
\* Lines 91-103: the loop over the stages.
AggregateStages(metrics, stages) ==
    IF stages = <<>> THEN metrics
    ELSE LET stage == Head(stages)
         IN  AggregateStages(
                 [metrics EXCEPT
                    !.total_tasks = @ + GetOr(stage.numTasks, 0),
                    !.failed_tasks = @ + GetOr(stage.numFailedTasks, 0),
                    !.shuffle_read_bytes = Accumulate(@, stage.shuffleReadBytes),
                    !.shuffle_write_bytes = Accumulate(@, stage.shuffleWriteBytes),
                    !.input_bytes = Accumulate(@, stage.inputBytes),
                    !.output_bytes = Accumulate(@, stage.outputBytes)],
                 Tail(stages))

\* HistoryServerClient._parse_metrics.
_parse_metrics(app_data) ==
    LET m0 == [NewExecutionMetrics(GetOr(app_data.id, <<>>), GetOr(app_data.name, <<>>))
                  EXCEPT !.raw_metrics = <<app_data>>]
        m1 == IF app_data.attempts # <<>>
              THEN [m0 EXCEPT !.duration_ms = app_data.attempts[Len(app_data.attempts)]]
              ELSE m0
        summary == app_data.executorSummary
        m2 == IF TruthySummary(summary)
              THEN [m1 EXCEPT
                      !.executor_memory_used =
                          Some(GetOr(summary[1].memoryUsed, Bytes(0, 0))),
                      !.executor_memory_spilled =
                          Some(GetOr(summary[1].diskUsed, Bytes(0, 0)))]
              ELSE m1
        stages == app_data.stages
        m3 == [m2 EXCEPT
                 !.total_stages = Len(stages),
                 !.failed_stages =
                     Cardinality({i \in 1..Len(stages) :
                                     stages[i].status = Some("FAILED")})]
    IN  AggregateStages(m3, stages)

\* Lines 39-62: the built-in record returned when nothing else is found.
DefaultMockMetrics(app_id) ==
    [ NewExecutionMetrics(app_id, <<"Production_Data_Pipeline_v1">>) EXCEPT
        !.duration_ms = Some(1800000),
        !.total_tasks = 500,
        !.failed_tasks = 5,
        !.total_stages = 10,
        !.failed_stages = 0,
        !.executor_memory_used = Some(GiBytes(60)),
        !.executor_memory_spilled = Some(GiBytes(5)),
        !.shuffle_read_bytes = Some(GiBytes(20)),
        !.shuffle_write_bytes = Some(GiBytes(15)),
        !.input_bytes = Some(GiBytes(50)),
        !.output_bytes = Some(GiBytes(30)),
        !.peak_memory_usage = Some(GiBytes(75)),
        !.gc_time_ms = Some(120000),
        !.raw_metrics = << <<"executorCount", "10">>, <<"driverMemory", "20g">>,
                           <<"executorMemory", "8g">>, <<"memorySpillage", "high">>,
                           <<"gcTimePercentage", "6.67">> >> ]

\* The mock data file: absent, not the JSON the code expects, or a list of
\* applications.
MockFile(applications) ==
    [exists |-> TRUE, malformed |-> FALSE, applications |-> applications]

NoMockFile == [exists |-> FALSE, malformed |-> FALSE, applications |-> <<>>]

MalformedMockFile == [exists |-> TRUE, malformed |-> TRUE, applications |-> <<>>]

\* The least element of a non-empty set of positions.
FirstOf(positions) == CHOOSE i \in positions : \A j \in positions : i <= j

\* Lines 34-36: the loop ends at the first application that has no id
\* (app['id'] raises KeyError) or whose id or name is app_id (its parsed
\* metrics are returned); without one the default record is returned.
MockScan(applications, app_id) ==
    LET ends == { i \in 1..Len(applications) :
                    \/ applications[i].id = None
                    \/ applications[i].id[1] = app_id
                    \/ GetOr(applications[i].name, <<>>) = app_id }
    IN  IF ends = {} THEN Returned(DefaultMockMetrics(app_id))
        ELSE IF applications[FirstOf(ends)].id = None THEN Raised
        ELSE Returned(_parse_metrics(applications[FirstOf(ends)]))

\* HistoryServerClient._get_mock_metrics: Returned(metrics) or Raised.
_get_mock_metrics(mock_file, app_id) ==
    IF ~mock_file.exists THEN Returned(DefaultMockMetrics(app_id))
    ELSE IF mock_file.malformed THEN Raised
    ELSE MockScan(mock_file.applications, app_id)

\* What requests.get of line 124 does: raise, time out (an exception too), or
\* return a response with a status code and a body, json None when the body
\* is not an application payload.
HttpFails(kind) == [kind |-> kind, code |-> 0, json |-> None]

HttpResponse(code, json) == [kind |-> "response", code |-> code, json |-> json]

\* The fetch of lines 120-129 did not give a payload.
FetchFailed(http) ==
    http.kind \in {"exception", "timeout"} \/ http.code # 200 \/ http.json = None

\* HistoryServerClient.get_application_metrics: Returned(metrics) or Raised.
get_application_metrics(mock, http, mock_file, app_id) ==
    IF mock THEN _get_mock_metrics(mock_file, app_id)
    ELSE IF http.kind \in {"exception", "timeout"}
         THEN _get_mock_metrics(mock_file, app_id)
    ELSE IF http.code = 200
         THEN IF http.json = None THEN _get_mock_metrics(mock_file, app_id)
              ELSE Returned(_parse_metrics(http.json[1]))
    ELSE _get_mock_metrics(mock_file, app_id)

---------------------------------------------------------------------------
(* The inputs of the metrics fetch, and the fetch as a state machine *)

MaxApps == 2

AppIds == { <<"app-1">>, <<"Nightly">> }

Stages ==
    << Stage(Some("COMPLETE"), Some(200), Some(0), Some(GiBytes(20)), None,
             Some(GiBytes(50)), None),
       Stage(Some("FAILED"), Some(300), Some(5), Some(Bytes(2 ^ 30 - 1, Limb - 1)),
             Some(Bytes(0, 0)), Some(Bytes(1, 1)), Some(GiBytes(30))),
       Stage(None, None, None, None, None, None, None) >>

Apps ==
    { AppData(Some(<<"app-1">>), Some(<<"Pipeline">>), <<Some(1800)>>,
              Some(ExecutorSummary(Some(GiBytes(40)), Some(GiBytes(5)), TRUE)),
              Stages),
      AppData(Some(<<"app-2">>), Some(<<"Nightly">>), <<None, Some(5)>>,
              Some(ExecutorSummary(None, Some(Bytes(0, 7)), FALSE)),
              SubSeq(Stages, 2, 3)),
      AppData(Some(<<"app-3">>), None, <<>>,
              Some(ExecutorSummary(None, None, FALSE)), <<>>),
      AppData(Some(<<"app-4">>), None, <<>>,
              Some(ExecutorSummary(None, None, TRUE)), <<>>),
      AppData(None, Some(<<"Nightly">>), <<Some(5), None>>, None,
              SubSeq(Stages, 1, 1)) }

MockFiles ==
    { NoMockFile, MalformedMockFile }
    \cup { MockFile(apps) : apps \in SeqsUpTo(Apps, MaxApps) }

HttpOutcomes ==
    { HttpFails("exception"), HttpFails("timeout") }
    \cup { HttpResponse(code, json) :
              code \in {200, 404, 500}, json \in {None} \cup { Some(a) : a \in Apps } }

EnvValues == { None, Some(<<"true">>), Some(<<"TRUE">>), Some(<<"false">>) }

InitHistory ==
    /\ ParserUnused
    /\ AnalyzerUnused
    /\ JoinUnused
    /\ ResponseUnused
    /\ AnalyzeUnused
    /\ h_use_mock \in BOOLEAN
    /\ h_env \in EnvValues
    /\ h_http \in HttpOutcomes
    /\ h_mock_file \in MockFiles
    /\ h_app_id \in AppIds
    /\ h_pc = "start"
    /\ h_ret = [raised |-> FALSE, value |-> None]
    /\ MemoryUnused
    /\ TwiceUnused
    /\ DirUnused
    /\ ServerUnused

history_others == <<parser_vars, analyzer_vars, join_vars, response_vars, analyze_vars, memory_vars, twice_vars, dir_vars, server_vars>>

history_inputs == <<h_use_mock, h_env, h_http, h_mock_file, h_app_id>>

\* Lines 116-117: the client uses mock data.
GetMetricsFromMock ==
    /\ h_pc = "start"
    /\ use_mock(h_use_mock, h_env)
    /\ h_ret' = _get_mock_metrics(h_mock_file, h_app_id)
    /\ h_pc' = "done"
    /\ UNCHANGED history_inputs
    /\ UNCHANGED history_others

\* Lines 119-128: the server answers 200 with an application payload.
GetMetricsFetched ==
    /\ h_pc = "start"
    /\ ~use_mock(h_use_mock, h_env)
    /\ h_http.kind = "response" /\ h_http.code = 200 /\ h_http.json # None
    /\ h_ret' = Returned(_parse_metrics(h_http.json[1]))
    /\ h_pc' = "done"
    /\ UNCHANGED history_inputs
    /\ UNCHANGED history_others

\* Lines 126-128, 133-136: the server answers 200 and reading the body raises.
GetMetricsBadBody ==
    /\ h_pc = "start"
    /\ ~use_mock(h_use_mock, h_env)
    /\ h_http.kind = "response" /\ h_http.code = 200 /\ h_http.json = None
    /\ h_ret' = _get_mock_metrics(h_mock_file, h_app_id)
    /\ h_pc' = "done"
    /\ UNCHANGED history_inputs
    /\ UNCHANGED history_others

\* Lines 129-131: the server answers with another status.
GetMetricsBadStatus ==
    /\ h_pc = "start"
    /\ ~use_mock(h_use_mock, h_env)
    /\ h_http.kind = "response" /\ h_http.code # 200
    /\ h_ret' = _get_mock_metrics(h_mock_file, h_app_id)
    /\ h_pc' = "done"
    /\ UNCHANGED history_inputs
    /\ UNCHANGED history_others

\* Lines 133-136: the request raises or times out.
GetMetricsRequestFails ==
    /\ h_pc = "start"
    /\ ~use_mock(h_use_mock, h_env)
    /\ h_http.kind \in {"exception", "timeout"}
    /\ h_ret' = _get_mock_metrics(h_mock_file, h_app_id)
    /\ h_pc' = "done"
    /\ UNCHANGED history_inputs
    /\ UNCHANGED history_others

NextHistory ==
    \/ GetMetricsFromMock
    \/ GetMetricsFetched
    \/ GetMetricsBadBody
    \/ GetMetricsBadStatus
    \/ GetMetricsRequestFails

SpecHistory == InitHistory /\ [][NextHistory]_vars

\* The steps of get_application_metrics agree with the function.
HistoryAgreesWithCall ==
    h_pc = "done" =>
        h_ret = get_application_metrics(use_mock(h_use_mock, h_env), h_http,
                                        h_mock_file, h_app_id)

\* C20: when the metrics fetch from the monitoring backend fails (a status
\* other than 200, an exception or a timeout), get_application_metrics
\* returns no metrics record, so that the analysis runs without metrics, and
\* no error is propagated to the caller.
C20_FailedFetchGivesNoMetrics ==
    (h_pc = "done" /\ ~use_mock(h_use_mock, h_env) /\ FetchFailed(h_http)) =>
        (~h_ret.raised /\ h_ret.value = None)

---------------------------------------------------------------------------
(* Properties of the normalizer (_parse_metrics) *)

\* get_application_metrics has returned a record made by _parse_metrics: the
\* record keeps its payload as raw_metrics.
NormalizerRan ==
    /\ h_pc = "done"
    /\ ~h_ret.raised
    /\ h_ret.value # None
    /\ Len(h_ret.value[1].raw_metrics) = 1

NormalizedRecord == h_ret.value[1]

NormalizedPayload == h_ret.value[1].raw_metrics[1]

RECURSIVE SumOfField(_, _, _)
\* The sum of an integer field over the first k stages, a stage without the
\* field counting 0.
SumOfField(stages, field, k) ==
    IF k = 0 THEN 0
    ELSE SumOfField(stages, field, k - 1)
         + (IF stages[k][field] = None THEN 0 ELSE stages[k][field][1])

\* C21: total_tasks is the sum of numTasks and failed_tasks the sum of
\* numFailedTasks over the listed stages (a stage without the field counting
\* 0), total_stages is the number of listed stages and failed_stages the
\* number of stages whose status is 'FAILED'; so failed_stages <= total_stages,
\* and a payload without stages gives all four counts 0.
C21_TaskAndStageCounts ==
    NormalizerRan =>
        LET stages == NormalizedPayload.stages
            m == NormalizedRecord
        IN  /\ m.total_tasks = SumOfField(stages, "numTasks", Len(stages))
            /\ m.failed_tasks = SumOfField(stages, "numFailedTasks", Len(stages))
            /\ m.total_stages = Len(stages)
            /\ m.failed_stages =
                  Len(SelectSeq(stages, LAMBDA st : st.status = Some("FAILED")))
            /\ m.failed_stages <= m.total_stages
            /\ stages = <<>> =>
                  /\ m.total_tasks = 0 /\ m.failed_tasks = 0
                  /\ m.total_stages = 0 /\ m.failed_stages = 0

\* A payload of three stages, one failed and one without any field, has been
\* normalized: 500 tasks, 5 failed tasks, 3 stages, 1 failed stage.
C21_Witness ==
    /\ NormalizerRan
    /\ Len(NormalizedPayload.stages) = 3
    /\ NormalizedPayload.stages[3].numTasks = None
    /\ NormalizedRecord.total_tasks = 500
    /\ NormalizedRecord.failed_tasks = 5
    /\ NormalizedRecord.total_stages = 3
    /\ NormalizedRecord.failed_stages = 1

RECURSIVE StagesCarrying(_, _)
\* The values of a byte field in the stages that carry it, in order.
StagesCarrying(stages, field) ==
    IF stages = <<>> THEN <<>>
    ELSE (IF Head(stages)[field] = None THEN <<>> ELSE <<Head(stages)[field][1]>>)
         \o StagesCarrying(Tail(stages), field)

RECURSIVE SumOfBytes(_)
\* The sum of byte counts, from the last to the first.
SumOfBytes(values) ==
    IF values = <<>> THEN Bytes(0, 0)
    ELSE BytesPlus(SumOfBytes(SubSeq(values, 1, Len(values) - 1)),
                   values[Len(values)])

\* The byte fields of a record and the stage fields they are summed from.
ByteFields ==
    { <<"shuffle_read_bytes", "shuffleReadBytes">>,
      <<"shuffle_write_bytes", "shuffleWriteBytes">>,
      <<"input_bytes", "inputBytes">>,
      <<"output_bytes", "outputBytes">> }

\* C22 as stated: for every payload each of shuffle_read_bytes,
\* shuffle_write_bytes, input_bytes and output_bytes equals the sum of the
\* corresponding stage field over the stages that carry it, which is 0 when
\* no stage carries it.
C22_ByteFieldsAreSumsForEveryPayload ==
    NormalizerRan =>
        \A f \in ByteFields :
           NormalizedRecord[f[1]] =
               Some(SumOfBytes(StagesCarrying(NormalizedPayload.stages, f[2])))

\* C22, amended: each of shuffle_read_bytes, shuffle_write_bytes, input_bytes
\* and output_bytes is absent (None) when no stage carries the corresponding
\* stage field, and otherwise equals the sum of that field over the stages
\* that carry it; a stage without the field contributes zero and causes no
\* error, in any order or mix of stages with and without the field.
C22_ByteFieldsAreSums ==
    /\ (h_pc = "done" /\ ~use_mock(h_use_mock, h_env) /\ ~FetchFailed(h_http)) =>
           NormalizerRan
    /\ NormalizerRan =>
           \A f \in ByteFields :
              LET carried == StagesCarrying(NormalizedPayload.stages, f[2])
              IN  NormalizedRecord[f[1]] =
                      IF carried = <<>> THEN None ELSE Some(SumOfBytes(carried))

\* A payload whose second stage carries shuffleWriteBytes = 0 and whose third
\* stage carries no field has been normalized: shuffle_write_bytes is 0 (not
\* absent), shuffle_read_bytes is the sum over two stages, carrying past
\* 2^45.
C22_Witness ==
    /\ NormalizerRan
    /\ Len(NormalizedPayload.stages) = 3
    /\ NormalizedRecord.shuffle_write_bytes = Some(Bytes(0, 0))
    /\ NormalizedRecord.shuffle_read_bytes = Some(BigBytes(1, 20 * Limb - 1, Limb - 1))
    /\ NormalizedRecord.output_bytes = Some(GiBytes(30))

---------------------------------------------------------------------------
(* spark_config_parser.py: the memory-size utility, parse_memory_to_mb *)

RECURSIVE BitLen(_)
BitLen(x) == IF x = 0 THEN 0 ELSE 1 + BitLen(x \div 2)

\* float(n) for an int n below 2^67, as the integer it denotes: n itself up
\* to 53 bits, else n rounded to 53 significant bits, ties to the even one.
FloatOfInt(a) ==
    LET bits == IF a = <<>> THEN 0 ELSE 15 * (Len(a) - 1) + BitLen(a[Len(a)])
        e == bits - 53
        r == a[1] % (2 ^ e)
        odd == (a[1] \div (2 ^ e)) % 2 = 1
        down == <<a[1] - r>> \o Tail(a)
    IN  IF e <= 0 THEN a
        ELSE IF r > 2 ^ (e - 1) \/ (r = 2 ^ (e - 1) /\ odd)
             THEN BigAdd(down, <<2 ^ e>>, 0)
        ELSE down

\* int(x / 1024) for a whole x.
ShiftRight10(a) ==
    Normalize([i \in 1..Len(a) |->
                  a[i] \div 1024 + (IF i < Len(a) THEN (a[i + 1] % 1024) * 32 ELSE 0)])

\* Lines 27-35: int(value * multipliers.get(unit, 1)) for a whole value; the
\* multipliers are powers of two, so the product is exact.
ScaleWhole(value, unit) ==
    CASE unit = "k" -> ShiftRight10(value)
      [] unit = "g" -> BigScale(value, 1024, 0)
      [] unit = "t" -> BigScale(BigScale(value, 1024, 0), 1024, 0)
      [] OTHER -> value

\* The same for a value num / den with a fraction, num * 2^20 below 2^31: the
\* integer part of the float product is that of the exact product.
ScaleFraction(num, den, unit) ==
    CASE unit = "k" -> IntLimbs(num \div (den * 1024))
      [] unit = "g" -> IntLimbs((num * 1024) \div den)
      [] unit = "t" -> IntLimbs((num * 1024 * 1024) \div den)
      [] OTHER -> IntLimbs(num \div den)

\* The match of r'(\d+(?:\.\d+)?)\s*([kmgt]?)b?' at the start of s: the
\* lengths of the integer digits and of the fraction digits (0 without a
\* fraction) and the unit ("" when the next lexeme is no unit).
MemoryMatch(s) ==
    LET n == Span(s, 1, Digits)
        f == IF n + 1 <= Len(s) /\ s[n + 1] = "." THEN Span(s, n + 2, Digits) ELSE 0
        numEnd == IF f > 0 THEN n + 1 + f ELSE n
        u == numEnd + Span(s, numEnd + 1, Whitespace) + 1
    IN  [ n |-> n, f |-> f,
          unit |-> IF u <= Len(s) /\ s[u] \in {"k", "m", "g", "t"} THEN s[u] ELSE "" ]

\* SparkConfigParser.parse_memory_to_mb: None or Some(megabytes).
parse_memory_to_mb(memory_str) ==
    LET s == strip(lower(memory_str))
        mt == MemoryMatch(s)
    IN  IF memory_str = <<>> THEN None
        ELSE IF mt.n = 0 THEN None
        ELSE IF mt.f = 0
             THEN Some(ScaleWhole(FloatOfInt(DigitsLimbs(SubSeq(s, 1, mt.n), <<>>)),
                                  mt.unit))
        ELSE Some(ScaleFraction(
                     DigitsValue(SubSeq(s, 1, mt.n) \o SubSeq(s, mt.n + 2, mt.n + 1 + mt.f), 0),
                     10 ^ mt.f, mt.unit))

---------------------------------------------------------------------------
(* The inputs of the memory parsers, and the two parsers as a state machine *)

MaxGap == 1

MemoryNumbers ==
    { <<"0">>,
      <<"7">>,
      <<"0", "0", "7">>,
      <<"2", "0">>,
      <<"5", "1", "2">>,
      <<"1", "0", "2", "3">>,
      <<"1", "0", "2", "4">>,
      <<"2", "0", "4", "8">>,
      <<"1", ".", "5">>,
      <<"0", ".", "2", "5">>,
      <<"1", "2", ".", "7", "5">>,
      <<"9", "0", "0", "7", "1", "9", "9", "2", "5", "4", "7", "4", "0", "9", "9", "2">>,
      <<"9", "0", "0", "7", "1", "9", "9", "2", "5", "4", "7", "4", "0", "9", "9", "3">>,
      <<"9", "0", "0", "7", "1", "9", "9", "2", "5", "4", "7", "4", "0", "9", "9", "5">>,
      <<"1", "8", "0", "1", "4", "3", "9", "8", "5", "0", "9", "4", "8", "1", "9", "8", "5">>,
      <<"1", "8", "0", "1", "4", "3", "9", "8", "5", "0", "9", "4", "8", "1", "9", "8", "6">>,
      <<"1", "8", "0", "1", "4", "3", "9", "8", "5", "0", "9", "4", "8", "1", "9", "8", "7">> }

MemoryUnits ==
    { <<>>, <<"k">>, <<"m">>, <<"g">>, <<"t">>, <<"K">>, <<"M">>, <<"G">>, <<"T">> }

MemoryGaps == { [i \in 1..k |-> " "] : k \in 0..MaxGap }

MemorySuffixes == { <<>>, <<"b">>, <<"B">>, <<"x">>, <<" ">> }

MemoryStrings ==
    { lead \o num \o gap \o unit \o suffix :
        lead \in {<<>>, <<" ">>}, num \in MemoryNumbers, gap \in MemoryGaps,
        unit \in MemoryUnits, suffix \in MemorySuffixes }
    \cup
    { <<>>,
      <<" ">>,
      <<"g">>,
      <<"x", "2", "0">>,
      <<"-", "5", "g">>,
      <<".", "5", "g">>,
      <<"1", ".">>,
      <<"2", "0", ".", "g">>,
      <<"1", "_", "0", "g">>,
      <<"2", "0", "\n", "g">>,
      <<"2", "0", "b", "b">>,
      <<"2", "0", "g", " ", "x">> }

InitMemory ==
    /\ ParserUnused
    /\ AnalyzerUnused
    /\ JoinUnused
    /\ ResponseUnused
    /\ AnalyzeUnused
    /\ HistoryUnused
    /\ m_str \in MemoryStrings
    /\ m_called = FALSE
    /\ m_ret = [raised |-> FALSE, value |-> None]
    /\ m_eng_called = FALSE
    /\ m_eng_ret = [raised |-> FALSE, value |-> None]
    /\ TwiceUnused
    /\ DirUnused
    /\ ServerUnused

memory_others == <<parser_vars, analyzer_vars, join_vars, response_vars, analyze_vars, history_vars, twice_vars, dir_vars, server_vars>>

\* SparkConfigParser.parse_memory_to_mb(m_str).
ParseMemoryToMb ==
    /\ ~m_called
    /\ m_called' = TRUE
    /\ m_ret' = [raised |-> FALSE, value |-> parse_memory_to_mb(m_str)]
    /\ UNCHANGED <<m_str, m_eng_called, m_eng_ret>>
    /\ UNCHANGED memory_others

\* ConfigAnalyzer._parse_memory_mb(m_str).
ParseMemoryMb ==
    /\ ~m_eng_called
    /\ m_eng_called' = TRUE
    /\ m_eng_ret' = [raised |-> FALSE, value |-> _parse_memory_mb(m_str)]
    /\ UNCHANGED <<m_str, m_called, m_ret>>
    /\ UNCHANGED memory_others

NextMemory == ParseMemoryToMb \/ ParseMemoryMb

SpecMemory == InitMemory /\ [][NextMemory]_vars

---------------------------------------------------------------------------
(* Properties of the memory parsers *)

\* A memory string '<n><unit>': a run of digits followed by nothing or by one
\* of k, m, g, t.
IsPlainSize(s) ==
    LET n == Span(s, 1, Digits)
    IN  /\ n >= 1
        /\ \/ Len(s) = n
           \/ Len(s) = n + 1 /\ s[n + 1] \in {"k", "m", "g", "t"}

PlainDigits(s) == SubSeq(s, 1, Span(s, 1, Digits))

PlainUnit(s) == IF Len(s) > Span(s, 1, Digits) THEN s[Len(s)] ELSE ""

PlainSizes == { s \in MemoryStrings : IsPlainSize(s) }

\* mb is the count of megabytes that n of the unit denotes: n/1024 in whole
\* megabytes for k, n for m and for no unit, n*1024 for g, n*1024*1024 for t.
IsStatedMegabytes(mb, n, unit) ==
    CASE unit = "k" ->
            /\ BigCmp(BigMul(mb, <<1024>>), n) <= 0
            /\ BigCmp(BigMul(BigAdd(mb, <<1>>, 0), <<1024>>), n) = 1
      [] unit = "g" -> BigCmp(mb, BigMul(n, <<1024>>)) = 0
      [] unit = "t" -> BigCmp(mb, BigMul(n, <<0, 32>>)) = 0
      [] OTHER -> BigCmp(mb, n) = 0

\* C23: for every non-negative integer n and unit in {k, m, g, t, none},
\* parse_memory_to_mb('<n><unit>') returns n/1024, n, n*1024, n*1024*1024 and
\* n megabytes respectively, as an integer count, and for a fixed unit the
\* result never decreases as n increases.
C23_MegabytesOfPlainSize ==
    (m_called /\ IsPlainSize(m_str)) =>
        /\ ~m_ret.raised
        /\ m_ret.value # None
        /\ IsStatedMegabytes(m_ret.value[1], DigitsLimbs(PlainDigits(m_str), <<>>),
                             PlainUnit(m_str))
        /\ \A s \in PlainSizes :
              (/\ PlainUnit(s) = PlainUnit(m_str)
               /\ BigCmp(DigitsLimbs(PlainDigits(s), <<>>),
                         DigitsLimbs(PlainDigits(m_str), <<>>)) <= 0)
              => BigCmp(parse_memory_to_mb(s)[1], m_ret.value[1]) <= 0

\* The string is entirely of the form <number>[unit], case-insensitive, with
\* an optional trailing 'b': digits, optionally a point and more digits, then
\* nothing or one of k, m, g, t, then nothing or b; blanks around the string
\* and between the number and the unit are allowed.
IsSizeForm(str) ==
    LET s == strip(lower(str))
        n == Span(s, 1, Digits)
        f == IF n + 1 <= Len(s) /\ s[n + 1] = "." THEN Span(s, n + 2, Digits) ELSE 0
        numEnd == IF f > 0 THEN n + 1 + f ELSE n
        rest == lstrip(SubSeq(s, numEnd + 1, Len(s)))
    IN  /\ n >= 1
        /\ rest \in { u \o b : u \in {<<>>, <<"k">>, <<"m">>, <<"g">>, <<"t">>},
                              b \in {<<>>, <<"b">>} }

\* C24: for every string that is not of the form <number>[unit] with an
\* optional trailing 'b', parse_memory_to_mb returns None and does not raise;
\* it returns a number only for strings that are entirely of that form.
C24_NumberOnlyForSizeForm ==
    m_called =>
        /\ ~m_ret.raised
        /\ (m_ret.value # None) <=> IsSizeForm(m_str)

\* C29: the memory parsing the rule engine applies (_parse_memory_mb) agrees
\* with the memory-size utility (parse_memory_to_mb): for every memory string
\* '<number><unit>' with unit in {none, k, m, g, t}, in either letter case,
\* both return the same megabyte count, and both return None for the same
\* strings.
C29_EngineAgreesWithUtility ==
    (m_called /\ m_eng_called) =>
        /\ ~m_ret.raised /\ ~m_eng_ret.raised
        /\ IsPlainSize(lower(m_str)) => m_eng_ret.value = m_ret.value
        /\ (m_eng_ret.value = None) <=> (m_ret.value = None)

----------------------------------------------------------------------------
(* Two calls on one unchanged file: the records and their raw_configs dicts *)

\* Every record gets its raw_configs from the dataclass's default_factory:
\* a dict object of its own. A dict object is an index into t_heap; the
\* variant hands every record the same object.
default_factory_shared(heap) == 1

default_factory(heap) == Len(heap) + 1

\* The assignments config.raw_configs[key] = value of one parse, made on
\* the dict object id, in their order.
RECURSIVE WriteAll(_, _)
WriteAll(d, raw) ==
    IF raw = <<>> THEN d
    ELSE WriteAll(DictSet(d, raw[1][1], raw[1][2]), Tail(raw))

Store(heap, id, raw) ==
    IF id > Len(heap) THEN Append(heap, WriteAll(<<>>, raw))
    ELSE [heap EXCEPT ![id] = WriteAll(heap[id], raw)]

CallParser(fn, path, file) ==
    CASE fn = "parse_file" -> parse_file(path, file)
      [] fn = "parse_spark_defaults" -> parse_spark_defaults(path, file)
      [] fn = "parse_spark_submit_script" -> parse_spark_submit_script(path, file)

\* config after line 59 (config.raw_configs[key] = value) of one iteration,
\* before the promotion; a skipped line stores nothing.
DefaultsStore(config, rawline) ==
    LET line == strip(rawline)
        parts == re_split_kv(line)
    IN  IF line = <<>> \/ Head(line) = "#" THEN config
        ELSE IF Len(parts) # 2 THEN config
        ELSE [config EXCEPT
                 !.raw_configs = DictSet(@, strip(parts[1]), strip(parts[2]))]

\* What the loop over the lines has stored in raw_configs when it ends: at
\* the end of the file, or at the line whose int() raises, whose pair line
\* 59 stored before.
RECURSIVE DefaultsWritten(_, _)
DefaultsWritten(config, lines) ==
    IF lines = <<>> THEN config.raw_configs
    ELSE LET r == DefaultsLine(config, Head(lines))
         IN  IF r.raised THEN DefaultsStore(config, Head(lines)).raw_configs
             ELSE DefaultsWritten(r.value[1], Tail(lines))

\* The same for the loop over the --conf matches (line 139).
RECURSIVE ConfWritten(_, _)
ConfWritten(config, matches) ==
    IF matches = <<>> THEN config.raw_configs
    ELSE LET key == Head(matches)[1]
             value == Head(matches)[2]
             stored == [config EXCEPT !.raw_configs = DictSet(@, key, value)]
             r == PromoteConf(stored, key, value)
         IN  IF r.raised THEN stored.raw_configs
             ELSE ConfWritten(r.value[1], Tail(matches))

\* What the dict of the record a call created holds when the call ends,
\* whether it returns or raises.
RawConfigsWritten(fn, path, file) ==
    IF ~file.exists THEN <<>>
    ELSE IF \/ fn = "parse_spark_submit_script"
            \/ fn = "parse_file" /\ Dispatch(path, file) = "script"
         THEN ConfWritten(SparkConfig(path), FindConf(full_command(file.content), 1))
    ELSE DefaultsWritten(SparkConfig(path), readlines(file.content))

\* One call on the heap, given what the parse returns and what it wrote:
\* the record is built around a dict from the default_factory, the parse
\* fills it, and the caller gets the record with a reference to the dict
\* (and what the dict held at that moment). A call that raises leaves its
\* dict behind, holding what was stored up to the raise, with no record
\* referring to it.
RecordOnHeap(config, id, stored) ==
    [config EXCEPT !.raw_configs = [ref |-> id, seen |-> stored[id]]]

CallOnHeap(heap, out, written) ==
    IF out.raised
    THEN [heap |-> Store(heap, default_factory(heap), written), ret |-> Raised]
    ELSE [heap |-> Store(heap, default_factory(heap), out.value[1].raw_configs),
          ret |-> Returned(RecordOnHeap(out.value[1], default_factory(heap),
                      Store(heap, default_factory(heap), out.value[1].raw_configs)))]

MaxTwiceLines == 1   \* lines of a settings file parsed twice
MaxTwiceItems == 1   \* arguments of a deploy script parsed twice

ParserFunctions ==
    { "parse_file", "parse_spark_defaults", "parse_spark_submit_script" }

TwiceInputs ==
    { <<p, Missing>> : p \in Paths }
    \cup { <<p, File(c)>> : p \in Paths,
              c \in KVContents(MaxTwiceLines) \cup ScriptContents(MaxTwiceItems) }

\* The other files parsed between the two calls: one of each dialect.
OtherInputs ==
    { << <<"conf/", "spark-defaults.conf">>,
         File(KVContent(<< <<"spark.other", "=", "y">> >>)) >>,
      << <<"deploy", ".sh">>,
         File(ScriptContent(<< << <<"--conf">>, <<"spark.other", "=", "z">> >> >>, <<" ">>)) >> }

InitTwice ==
    /\ \E in \in TwiceInputs : t_path = in[1] /\ t_fs = in[2]
    /\ t_fn = "none"
    /\ t_heap = <<>>
    /\ t_first = NoCall
    /\ t_second = NoCall
    /\ t_pc = "start"
    /\ file_path = <<>>
    /\ fs = Missing
    /\ ParserIdle
    /\ AnalyzerUnused
    /\ JoinUnused
    /\ ResponseUnused
    /\ AnalyzeUnused
    /\ HistoryUnused
    /\ MemoryUnused
    /\ DirUnused
    /\ ServerUnused

twice_others == <<parser_vars, analyzer_vars, join_vars, response_vars, analyze_vars, history_vars, memory_vars, dir_vars, server_vars>>

FirstReturns(c) ==
    /\ t_heap' = c.heap
    /\ t_first' = c.ret

SecondReturns(c) ==
    /\ t_heap' = c.heap
    /\ t_second' = c.ret

TwiceFirst ==
    /\ t_pc = "start"
    /\ \E fn \in ParserFunctions :
          /\ t_fn' = fn
          /\ FirstReturns(CallOnHeap(t_heap, CallParser(fn, t_path, t_fs),
                                     RawConfigsWritten(fn, t_path, t_fs)))
    /\ t_pc' = "first"
    /\ UNCHANGED <<t_path, t_fs, t_second>>
    /\ UNCHANGED twice_others

TwiceBetween ==
    /\ t_pc = "first"
    /\ \E in \in OtherInputs :
          t_heap' = CallOnHeap(t_heap, parse_file(in[1], in[2]),
                               RawConfigsWritten("parse_file", in[1], in[2])).heap
    /\ t_pc' = "between"
    /\ UNCHANGED <<t_path, t_fs, t_fn, t_first, t_second>>
    /\ UNCHANGED twice_others

TwiceSecond ==
    /\ t_pc \in {"first", "between"}
    /\ SecondReturns(CallOnHeap(t_heap, CallParser(t_fn, t_path, t_fs),
                                RawConfigsWritten(t_fn, t_path, t_fs)))
    /\ t_pc' = "done"
    /\ UNCHANGED <<t_path, t_fs, t_fn, t_first>>
    /\ UNCHANGED twice_others

NextTwice == TwiceFirst \/ TwiceBetween \/ TwiceSecond

SpecTwice == InitTwice /\ [][NextTwice]_vars

\* A record as the caller reads it now: raw_configs is what its dict holds.
ReadRecord(outcome) ==
    [outcome.value[1] EXCEPT !.raw_configs = t_heap[outcome.value[1].raw_configs.ref]]

\* The record as it was when the call returned.
RecordAsReturned(outcome) ==
    [outcome.value[1] EXCEPT !.raw_configs = outcome.value[1].raw_configs.seen]

\* C25: after two calls of one entry point on an unchanged file (other
\* parses in between or not), both calls raised or both returned; when they
\* returned, the second record equals the first as it was returned, the
\* first still reads the same, and the two raw_configs are different dict
\* objects.
C25_ParsingIsIdempotent ==
    t_pc = "done" =>
        /\ t_first.raised = t_second.raised
        /\ ~t_first.raised =>
              /\ ReadRecord(t_second) = RecordAsReturned(t_first)
              /\ ReadRecord(t_first) = RecordAsReturned(t_first)
              /\ t_first.value[1].raw_configs.ref # t_second.value[1].raw_configs.ref

\* Two calls returned records with a non-empty raw_configs, with another
\* file parsed in between.
C25_Witness ==
    /\ t_pc = "done"
    /\ ~t_first.raised
    /\ ~t_second.raised
    /\ Len(t_heap) = 3
    /\ ReadRecord(t_second).raw_configs # <<>>

----------------------------------------------------------------------------
(* Properties of the key/value dialect: the lines it leaves alone *)

\* The classes of lines of a settings file, read off the line itself.
IsBlankLine(rawline) == \A i \in 1..Len(rawline) : rawline[i] \in Whitespace

IsCommentLine(rawline) == lstrip(rawline) # <<>> /\ Head(lstrip(rawline)) = "#"

\* The position of the first separator (whitespace or '=') in the stripped
\* line, 0 when it has none.
FirstSeparator(rawline) ==
    LET line == strip(rawline)
        at == { i \in 1..Len(line) : line[i] \in Whitespace \cup {"="} }
    IN  IF at = {} THEN 0 ELSE CHOOSE i \in at : \A j \in at : i <= j

WellFormedLine(rawline) ==
    /\ ~IsBlankLine(rawline)
    /\ ~IsCommentLine(rawline)
    /\ FirstSeparator(rawline) # 0

KeyOfLine(rawline) == SubSeq(strip(rawline), 1, FirstSeparator(rawline) - 1)

ValueOfLine(rawline) ==
    strip(SubSeq(strip(rawline), FirstSeparator(rawline) + 1, Len(strip(rawline))))

WellFormedLines(content) == SelectSeq(readlines(content), WellFormedLine)

\* The last well-formed line that names the key.
LastLineOfKey(lines, key) ==
    lines[CHOOSE j \in 1..Len(lines) :
            /\ KeyOfLine(lines[j]) = key
            /\ \A k \in (j + 1)..Len(lines) : KeyOfLine(lines[k]) # key]

\* C26: in the key/value dialect the blank, whitespace-only, comment and
\* one-token lines change nothing (the call ends as it does on the file
\* without them), and a returned record's raw_configs has exactly one entry
\* for each distinct key of the well-formed lines, holding the value of the
\* last well-formed line with that key.
C26_SkippedLinesAndLastValue ==
    (dialect = "defaults" /\ fs.exists) =>
        LET wf == WellFormedLines(fs.content)
            keys == { KeyOfLine(wf[j]) : j \in 1..Len(wf) }
        IN  /\ ret = parse_spark_defaults(file_path, File(Concat(wf)))
            /\ ~ret.raised =>
                  LET raw == ret.value[1].raw_configs
                  IN  /\ { raw[i][1] : i \in 1..Len(raw) } = keys
                      /\ Len(raw) = Cardinality(keys)
                      /\ \A i \in 1..Len(raw) :
                            raw[i][2] = ValueOfLine(LastLineOfKey(wf, raw[i][1]))

\* A file of one well-formed line and one whitespace-only line was parsed
\* and the record has exactly one entry.
C26_Witness ==
    /\ dialect = "defaults"
    /\ fs.exists
    /\ ~ret.raised
    /\ Len(readlines(fs.content)) = 2
    /\ Len(WellFormedLines(fs.content)) = 1
    /\ \E i \in 1..2 : /\ readlines(fs.content)[i] # <<"\n">>
                       /\ IsBlankLine(readlines(fs.content)[i])
    /\ Len(ret.value[1].raw_configs) = 1

----------------------------------------------------------------------------
(* Properties of the typed integer fields *)

IntegerFields(config) ==
    { config.executor_cores, config.num_executors,
      config.default_parallelism, config.shuffle_partitions }

\* C28: in every record a parser returns, each of executor_cores,
\* num_executors, default_parallelism and shuffle_partitions is absent or a
\* non-negative integer.
C28_IntegerFieldsNonNegative ==
    (call # "none" /\ ~ret.raised) =>
        \A f \in IntegerFields(ret.value[1]) : f = None \/ f[1] >= 0

----------------------------------------------------------------------------
(* spark_config_parser.py: the directory walker *)

\* The lexemes of a path that name a directory on the way to the entry.
DirParts == {"conf/", "jobs/"}

\* The last component of a path: what follows its last directory part.
RECURSIVE PathName(_)
PathName(path) ==
    IF \E i \in 1..Len(path) : path[i] \in DirParts
    THEN PathName(Tail(path))
    ELSE path

\* The subdirectory of the starting directory an entry lies in; "" for an
\* entry of the starting directory itself (a subdirectory is one).
ParentDir(path) == IF Len(path) > 1 /\ path[1] \in DirParts THEN path[1] ELSE ""

\* The subdirectories of the starting directory in the order its listing
\* has them: `entries` gives every directory's listing order, and a
\* subdirectory stands where the first path through it does.
RECURSIVE Subdirectories(_, _)
Subdirectories(entries, seen) ==
    IF entries = <<>> THEN <<>>
    ELSE LET d == Head(entries).path[1]
         IN  IF d \in DirParts /\ d \notin seen
             THEN <<d>> \o Subdirectories(Tail(entries), seen \cup {d})
             ELSE Subdirectories(Tail(entries), seen)

\* The walk of rglob: the starting directory's own entries first, then
\* those of each subdirectory in turn.
Traversal(entries) ==
    LET subdirs == Subdirectories(entries, {})
    IN  SelectSeq(entries, LAMBDA e : ParentDir(e.path) = "")
        \o Concat([i \in 1..Len(subdirs) |->
                      SelectSeq(entries, LAMBDA e : ParentDir(e.path) = subdirs[i])])

\* Path.rglob(name) for a literal name and for '*.sh': every entry under
\* the directory, at any depth, file or directory, whose last component
\* matches, in the order of the walk.
rglob(entries, pattern) ==
    SelectSeq(Traversal(entries),
        LAMBDA e : IF pattern = <<"*", ".sh">>
                   THEN endswith(PathName(e.path), <<".sh">>)
                   ELSE PathName(e.path) = pattern)

\* What open() reads at an entry that is a file.
EntryFile(e) == File(e.content)

\* for conf_file in rglob('spark-defaults.conf'): append its record
RECURSIVE ScanSettings(_, _, _)
ScanSettings(configs, dir, matches) ==
    IF matches = <<>> THEN Returned(configs)
    ELSE LET e == Head(matches)
             r == IF e.kind = "dir" THEN Raised
                  ELSE parse_spark_defaults(dir \o e.path, EntryFile(e))
         IN  IF r.raised THEN Raised
             ELSE ScanSettings(Append(configs, r.value[1]), dir, Tail(matches))

\* for script_file in rglob('*.sh'): read it, and append its record when the
\* content holds 'spark-submit'
RECURSIVE ScanScripts(_, _, _)
ScanScripts(configs, dir, matches) ==
    IF matches = <<>> THEN Returned(configs)
    ELSE LET e == Head(matches)
         IN  IF e.kind = "dir" THEN Raised
             ELSE IF ~Contains(e.content, "spark-submit")
                  THEN ScanScripts(configs, dir, Tail(matches))
             ELSE LET r == parse_spark_submit_script(dir \o e.path, EntryFile(e))
                  IN  IF r.raised THEN Raised
                      ELSE ScanScripts(Append(configs, r.value[1]), dir, Tail(matches))

parse_directory(dir, root) ==
    IF root.kind = "missing" THEN Returned(<<>>)
    ELSE LET entries == IF root.kind = "dir" THEN root.entries ELSE <<>>
             settings == ScanSettings(<<>>, dir, rglob(entries, <<"spark-defaults.conf">>))
         IN  IF settings.raised THEN Raised
             ELSE ScanScripts(settings.value[1], dir, rglob(entries, <<"*", ".sh">>))

MaxEntries == 2   \* entries under the directory

FileEntry(path, content) == [path |-> path, kind |-> "file", content |-> content]
DirEntry(path) == [path |-> path, kind |-> "dir", content |-> <<>>]

MarkerItem == << <<"spark-submit">> >>
ConfItem(key, value) == << <<"--conf">>, <<key, "=">> \o value >>

DirEntries ==
    { FileEntry(<<"conf/", "spark-defaults.conf">>,
                KVContent(<< <<"spark.executor.memory", " ", "4", "g">> >>)),
      FileEntry(<<"conf/", "spark-defaults.conf">>,
                KVContent(<< <<"spark.executor.cores", " ", "4", "x">> >>)),
      FileEntry(<<"spark-defaults.conf">>,
                KVContent(<< <<"spark-submit", " ", "x">> >>)),
      FileEntry(<<"spark-defaults.conf", ".bak">>,
                KVContent(<< <<"spark.foo", "=", "x">> >>)),
      FileEntry(<<"deploy", ".sh">>,
                ScriptContent(<<MarkerItem, ConfItem("spark.foo", <<"x">>)>>, <<" ">>)),
      FileEntry(<<"deploy", ".sh">>,
                ScriptContent(<<ConfItem("spark.foo", <<"x">>)>>, <<" ">>)),
      FileEntry(<<"jobs/", "run", ".sh">>,
                ScriptContent(<<MarkerItem,
                                ConfItem("spark.sql.shuffle.partitions", <<"x">>)>>, <<" ">>)),
      FileEntry(<<"jobs/", ".sh">>,
                ScriptContent(<<MarkerItem,
                                ConfItem("spark.sql.shuffle.partitions", <<"4">>)>>, <<"\n">>)),
      FileEntry(<<"job", ".txt">>,
                ScriptContent(<<MarkerItem, ConfItem("spark.foo", <<"x">>)>>, <<" ">>)),
      DirEntry(<<"conf/">>),
      DirEntry(<<"jobs/", "old", ".sh">>),
      DirEntry(<<"jobs/", "spark-defaults.conf">>) }

\* The trees: up to MaxEntries entries with different paths, in every order.
DirTrees ==
    { t \in SeqsUpTo(DirEntries, MaxEntries) :
        \A i, j \in 1..Len(t) : i # j => t[i].path # t[j].path }

DirRoots ==
    { [kind |-> "dir", entries |-> t] : t \in DirTrees }
    \cup { [kind |-> "missing", entries |-> <<>>], [kind |-> "file", entries |-> <<>>] }

InitDirectory ==
    /\ d_dir = <<"repo/">>
    /\ d_root \in DirRoots
    /\ d_called = FALSE
    /\ d_ret = NoCall
    /\ file_path = <<>>
    /\ fs = Missing
    /\ ParserIdle
    /\ AnalyzerUnused
    /\ JoinUnused
    /\ ResponseUnused
    /\ AnalyzeUnused
    /\ HistoryUnused
    /\ MemoryUnused
    /\ TwiceUnused
    /\ ServerUnused

dir_others == <<parser_vars, analyzer_vars, join_vars, response_vars, analyze_vars, history_vars, memory_vars, twice_vars, server_vars>>

ParseDirectory ==
    /\ ~d_called
    /\ d_called' = TRUE
    /\ d_ret' = parse_directory(d_dir, d_root)
    /\ UNCHANGED <<d_dir, d_root>>
    /\ UNCHANGED dir_others

NextDirectory == ParseDirectory

SpecDirectory == InitDirectory /\ [][NextDirectory]_vars

----------------------------------------------------------------------------
(* Properties of the directory walker *)

IsSettingsFile(e) == e.kind = "file" /\ PathName(e.path) = <<"spark-defaults.conf">>

IsMarkedScript(e) ==
    /\ e.kind = "file"
    /\ endswith(PathName(e.path), <<".sh">>)
    /\ Contains(e.content, "spark-submit")

\* How many times x stands in the sequence.
Occurrences(seq, x) == Cardinality({ i \in 1..Len(seq) : seq[i] = x })

\* The two sequences hold the same elements, each as many times.
SameElements(a, b) ==
    /\ Len(a) = Len(b)
    /\ \A i \in 1..Len(a) : Occurrences(a, a[i]) = Occurrences(b, a[i])

\* What each file the walker is to pick up gives, parsed on its own with
\* its dialect.
WantedOutcomes(dir, entries) ==
    LET settings == SelectSeq(entries, IsSettingsFile)
        scripts == SelectSeq(entries, IsMarkedScript)
    IN  [i \in 1..Len(settings) |->
            parse_spark_defaults(dir \o settings[i].path, File(settings[i].content))]
        \o [i \in 1..Len(scripts) |->
            parse_spark_submit_script(dir \o scripts[i].path, File(scripts[i].content))]

\* C27: for a directory that does not exist parse_directory returns the
\* empty list; for a directory it returns one record for each file named
\* spark-defaults.conf, parsed with the key/value dialect, and one for each
\* .sh file holding 'spark-submit', parsed with the deploy-script dialect,
\* and nothing else; it raises only when one of these parses does.
C27_OneRecordPerConfigFile ==
    d_called =>
        /\ d_root.kind = "missing" => d_ret = Returned(<<>>)
        /\ d_root.kind = "dir" =>
              LET wanted == WantedOutcomes(d_dir, d_root.entries)
              IN  IF \E i \in 1..Len(wanted) : wanted[i].raised
                  THEN d_ret.raised
                  ELSE /\ ~d_ret.raised
                       /\ SameElements(d_ret.value[1],
                                       [i \in 1..Len(wanted) |-> wanted[i].value[1]])

----------------------------------------------------------------------------
(* history_server_client.py: list_applications and find_application_by_name *)

\* The one application of the built-in list (lines 156-161).
BuiltinApplication ==
    AppData(Some(<<"app-20260126-001">>),
            Some(<<"Production_Data_", "Pipeline", "_v1">>), <<>>, None, <<>>)

\* What response.json() of the list request gives: a list of applications,
\* a JSON object with the given keys instead of a list, or no JSON at all
\* (json() raises).
ListBody(apps) == [kind |-> "list", apps |-> apps, keys |-> <<>>]
ObjectBody(keys) == [kind |-> "object", apps |-> <<>>, keys |-> keys]
InvalidBody == [kind |-> "invalid", apps |-> <<>>, keys |-> <<>>]

ListFails == [kind |-> "exception", code |-> 0, body |-> InvalidBody]
ListResponse(code, body) == [kind |-> "response", code |-> code, body |-> body]

\* seq[:limit]: the first limit elements, or all but the last -limit for a
\* negative limit.
SliceTo(seq, limit) ==
    IF limit >= 0
    THEN SubSeq(seq, 1, IF limit < Len(seq) THEN limit ELSE Len(seq))
    ELSE SubSeq(seq, 1, Len(seq) + limit)

\* HistoryServerClient.list_applications(limit): Returned(body) or Raised.
\* In mock mode the file's list is cut to the limit (the built-in list is
\* not); outside mock mode the limit goes to the server, the body is
\* returned as it came, and every failure gives the empty list.
list_applications(mock, list_http, mock_file, limit) ==
    IF mock
    THEN IF mock_file.exists
         THEN IF mock_file.malformed THEN Raised
              ELSE Returned(ListBody(SliceTo(mock_file.applications, limit)))
         ELSE Returned(ListBody(<<BuiltinApplication>>))
    ELSE IF list_http.kind = "exception" THEN Returned(ListBody(<<>>))
    ELSE IF list_http.code = 200
         THEN IF list_http.body.kind = "invalid" THEN Returned(ListBody(<<>>))
              ELSE Returned(list_http.body)
    ELSE Returned(ListBody(<<>>))

\* needle in text, for strings
IsInfix(needle, text) ==
    \E i \in 0..(Len(text) - Len(needle)) :
        SubSeq(text, i + 1, i + Len(needle)) = needle

\* Lines 188-194: the first application whose name holds the pattern gives
\* its id to get_application_metrics (app['id'] raises KeyError without
\* one); with no match the pattern itself is taken for an id.
FindLoop(apps, mock, http, mock_file, name_pattern) ==
    LET matches == { i \in 1..Len(apps) :
                       IsInfix(lower(name_pattern), lower(GetOr(apps[i].name, <<>>))) }
    IN  IF matches = {}
        THEN get_application_metrics(mock, http, mock_file, name_pattern)
        ELSE IF apps[FirstOf(matches)].id = None THEN Raised
        ELSE get_application_metrics(mock, http, mock_file, apps[FirstOf(matches)].id[1])

\* Lines 189-194 on what line 187 got. Iterating a JSON object gives its
\* keys, strings, and app.get raises on the first; an object without keys
\* gives no iteration, like an empty list.
FindIn(apps, mock, http, mock_file, name_pattern) ==
    IF apps.raised THEN Raised
    ELSE IF apps.value[1].kind = "object" /\ apps.value[1].keys # <<>> THEN Raised
    ELSE FindLoop(apps.value[1].apps, mock, http, mock_file, name_pattern)

\* Line 187: list_applications(limit=100).
FindLimit == 100

\* HistoryServerClient.find_application_by_name: Returned(metrics) or Raised.
find_application_by_name(mock, list_http, http, mock_file, name_pattern) ==
    FindIn(list_applications(mock, list_http, mock_file, FindLimit),
           mock, http, mock_file, name_pattern)

----------------------------------------------------------------------------
(* server.py: the tool calls that use the shared history client *)

MaxCalls == 2   \* tool calls in one run of the server

\* The use_mock / use_mock_metrics argument: absent (the default True holds)
\* or given.
UseMockArgs == { None, Some(TRUE), Some(FALSE) }

ServerAppIdentifiers == { <<"app-1">>, <<"nightly">>, <<"pipeline">> }

\* The optional app_identifier of analyze_configuration and
\* get_recommendations: absent, empty, or an identifier.
OptionalAppIdentifiers ==
    { None, Some(<<>>) } \cup { Some(a) : a \in ServerAppIdentifiers }

ServerConfigs ==
    { << <<"conf/", "spark-defaults.conf">>,
         File(KVContent(<< <<"spark.executor.memory", " ", "4", "g">> >>)) >>,
      << <<"conf/", "spark-defaults.conf">>,
         File(KVContent(<< <<"spark.executor.cores", " ", "4", "x">> >>)) >> }

\* A mock data file longer than the limit of the search: the only
\* application named Nightly is the one after the first FindLimit.
LongMockFile ==
    MockFile([i \in 1..(FindLimit + 1) |->
                 IF i <= FindLimit
                 THEN AppData(Some(<<"app-1">>), Some(<<"Pipeline">>), <<>>, None, <<>>)
                 ELSE AppData(Some(<<"app-2">>), Some(<<"Nightly">>), <<>>, None, <<>>)])

ServerMockFiles ==
    { NoMockFile, MalformedMockFile, LongMockFile,
      MockFile(<< AppData(Some(<<"app-2">>), Some(<<"Nightly">>), <<>>, None, <<>>) >>),
      MockFile(<< AppData(None, Some(<<"Nightly">>), <<>>, None, <<>>) >>) }

ListOutcomes ==
    { ListFails, ListResponse(500, InvalidBody), ListResponse(200, InvalidBody),
      ListResponse(200, ObjectBody(<<>>)),
      ListResponse(200, ObjectBody(<<"error">>)),
      ListResponse(200, ListBody(<<>>)),
      ListResponse(200, ListBody(<< AppData(Some(<<"app-2">>), Some(<<"Nightly">>), <<>>, None, <<>>) >>)),
      ListResponse(200, ListBody(<< AppData(None, Some(<<"Nightly">>), <<>>, None, <<>>) >>)) }

MetricsOutcomes ==
    { HttpFails("exception"), HttpResponse(404, None),
      HttpResponse(200, Some(AppData(Some(<<"app-2">>), Some(<<"Nightly">>), <<>>, None, <<>>))) }

\* Line 17: history_client = HistoryServerClient(), use_mock from the
\* environment alone.
InitServer ==
    /\ s_env \in EnvValues
    /\ s_use_mock = use_mock(FALSE, s_env)
    /\ s_mock_file \in ServerMockFiles
    /\ s_calls = 0
    /\ s_last = NoToolCall
    /\ file_path = <<>>
    /\ fs = Missing
    /\ ParserIdle
    /\ AnalyzerUnused
    /\ JoinUnused
    /\ ResponseUnused
    /\ AnalyzeUnused
    /\ HistoryUnused
    /\ MemoryUnused
    /\ TwiceUnused
    /\ DirUnused

server_others == <<parser_vars, analyzer_vars, join_vars, response_vars, analyze_vars, history_vars, memory_vars, twice_vars, dir_vars>>

ToolCall(tool, arg, used, failed) ==
    [tool |-> tool, arg |-> arg, before |-> s_use_mock, used |-> used, failed |-> failed]

\* The override of lines 185-191 and 226-229 with the restore in a finally
\* clause: the flag is put back whether the search returned or raised.
OverrideAndFind_finally(flag, override, found) ==
    [flag |-> flag, raised |-> found.raised]

\* Lines 185-191 and 226-229: remember the flag, set it to the argument,
\* search (found is what the search does under the argument), put the flag
\* back. The search raising skips the last statement.
OverrideAndFind(flag, override, found) ==
    [flag |-> IF found.raised THEN override ELSE flag, raised |-> found.raised]

\* What a handler leaves: the flag after the call, the data source the
\* search used (None without a search), and where the call failed.
AfterFind(f, used) ==
    [flag |-> f.flag, used |-> Some(used),
     failed |-> IF f.raised THEN "find" ELSE "none"]

NoFind(flag, failed) == [flag |-> flag, used |-> None, failed |-> failed]

\* call_tool, name == "fetch_app_metrics" (lines 179-212)
fetch_app_metrics(flag, mock_file, app_identifier, arg, list_http, http) ==
    AfterFind(
        OverrideAndFind(flag, GetOr(arg, TRUE),
            find_application_by_name(GetOr(arg, TRUE), list_http, http,
                                     mock_file, app_identifier)),
        GetOr(arg, TRUE))

\* call_tool, name == "analyze_configuration" (lines 214-247): the parse
\* comes first and may raise; the analysis comes after the flag was put back
\* and does not use the client.
analyze_configuration(flag, mock_file, config, app_identifier, arg, list_http, http) ==
    IF parse_file(config[1], config[2]).raised THEN NoFind(flag, "parse")
    ELSE IF app_identifier = None \/ app_identifier[1] = <<>>
    THEN NoFind(flag, "none")
    ELSE AfterFind(
             OverrideAndFind(flag, GetOr(arg, TRUE),
                 find_application_by_name(GetOr(arg, TRUE), list_http, http,
                                          mock_file, app_identifier[1])),
             GetOr(arg, TRUE))

\* call_tool, name == "get_recommendations" (lines 249-298): no override,
\* the search runs with the flag as it stands.
get_recommendations(flag, mock_file, config, app_identifier, list_http, http) ==
    IF parse_file(config[1], config[2]).raised THEN NoFind(flag, "parse")
    ELSE IF app_identifier = None \/ app_identifier[1] = <<>>
    THEN NoFind(flag, "none")
    ELSE AfterFind(
             [flag |-> flag,
              raised |-> find_application_by_name(flag, list_http, http,
                             mock_file, app_identifier[1]).raised],
             flag)

\* The handler has returned its response.
ToolReturns(tool, arg, r) ==
    /\ s_use_mock' = r.flag
    /\ s_last' = ToolCall(tool, arg, r.used, r.failed)

FetchAppMetrics ==
    /\ s_calls < MaxCalls
    /\ \E app_identifier \in ServerAppIdentifiers, arg \in UseMockArgs,
          list_http \in ListOutcomes, http \in MetricsOutcomes :
          ToolReturns("fetch_app_metrics", arg,
              fetch_app_metrics(s_use_mock, s_mock_file, app_identifier,
                                arg, list_http, http))
    /\ s_calls' = s_calls + 1
    /\ UNCHANGED <<s_env, s_mock_file>>
    /\ UNCHANGED server_others

AnalyzeConfiguration ==
    /\ s_calls < MaxCalls
    /\ \E config \in ServerConfigs, app_identifier \in OptionalAppIdentifiers,
          arg \in UseMockArgs, list_http \in ListOutcomes, http \in MetricsOutcomes :
          ToolReturns("analyze_configuration", arg,
              analyze_configuration(s_use_mock, s_mock_file, config,
                                    app_identifier, arg, list_http, http))
    /\ s_calls' = s_calls + 1
    /\ UNCHANGED <<s_env, s_mock_file>>
    /\ UNCHANGED server_others

GetRecommendations ==
    /\ s_calls < MaxCalls
    /\ \E config \in ServerConfigs, app_identifier \in OptionalAppIdentifiers,
          list_http \in ListOutcomes, http \in MetricsOutcomes :
          ToolReturns("get_recommendations", None,
              get_recommendations(s_use_mock, s_mock_file, config,
                                  app_identifier, list_http, http))
    /\ s_calls' = s_calls + 1
    /\ UNCHANGED <<s_env, s_mock_file>>
    /\ UNCHANGED server_others

NextServer == FetchAppMetrics \/ AnalyzeConfiguration \/ GetRecommendations

SpecServer == InitServer /\ [][NextServer]_vars

----------------------------------------------------------------------------
(* Properties of the tool calls *)

\* C30: after a fetch_app_metrics or analyze_configuration call has
\* returned, with a success or an error response, history_client.use_mock
\* has the value it had before the call; and the data source a call used is
\* its own argument where it has one (True when the argument is absent),
\* the client's initial setting where it has none.
C30_UseMockRestored ==
    /\ s_last.tool \in {"fetch_app_metrics", "analyze_configuration"} =>
          s_use_mock = s_last.before
    /\ s_last.used # None =>
          s_last.used[1] = IF s_last.tool = "get_recommendations"
                           THEN use_mock(FALSE, s_env)
                           ELSE GetOr(s_last.arg, TRUE)

====
